---- MODULE Spec2Model ----
(***************************************************************************)
(* Lazarus: the retry controller (core/loop.py HealingLoop), the per-      *)
(* attempt verification classification (core/runner.py) and the healing    *)
(* orchestrator (core/healer.py Healer.heal / _finalize_healing).          *)
(*                                                                         *)
(* The specifications share the state:                                     *)
(*   RedactSpec   - Redactor.redact applied twice to a text                 *)
(*   TruncTextSpec - estimate_tokens and truncate_text on a text            *)
(*   TruncContextSpec - truncate_for_context applied twice to a context     *)
(*   CompareSpec  - compare_errors on two execution results                 *)
(*   RetrySpec    - ClaudeCodeClient.request_fix_with_retry                 *)
(*   DispatchSpec - NotificationDispatcher.dispatch, called by heal and by  *)
(*                  a caller that keeps one dispatcher                      *)
(*   LoopSpec     - a HealingLoop driven by an arbitrary caller            *)
(*   Spec         - one Healer.heal session, split at its collaborator     *)
(*                  calls; FairSpec adds that a running session goes on    *)
(*   CtorSpec     - one call of HealingLoop.__init__                       *)
(*   RunnerSpec   - one call of ScriptRunner.run_script                    *)
(*   CriteriaSpec - one call of check_custom_criteria                      *)
(***************************************************************************)
EXTENDS Integers, Sequences, FiniteSets, TLC

VARIABLES
    loop,              \* HealingLoop fields
    gen,               \* state of the generator returned by HealingLoop.__iter__
    now,               \* time.time()
    yields,            \* values the generator has yielded so far
    last_check,        \* what _should_continue read at its latest call
    marked_at,         \* attempt during which mark_success() was first called (0: never)
    pc,                \* position of the caller / of heal
    git_ops,           \* Healer.git_ops is not None
    success_criteria,  \* the script's ScriptConfig carries success_criteria
    original_branch,   \* heal local
    stashed_changes,   \* heal local
    feature_branch,    \* heal local
    initial_result,    \* heal local
    current_execution, \* heal local
    context,           \* heal local: the HealingContext
    attempts,          \* heal local: list[HealingAttempt]
    claude_response,   \* the latest ClaudeResponse
    verification,      \* the latest VerificationResult
    has_changes,       \* argument of _finalize_healing
    result,            \* the HealingResult under construction / returned
    exc,               \* exception in flight or raised by heal ("None": none)
    calls,             \* collaborator calls made so far, in order
    sent,              \* contexts handed to request_fix, in order
    runs,              \* number of script runs so far
    warnings,          \* what heal logged as warning / error
    resets,            \* number of reset() calls the caller of the loop made
    call_args,         \* arguments of the function under call (<< >>: none)
    returned,          \* what that call returned or raised
    dispatcher         \* the NotificationDispatcher in use

vars == << loop, gen, now, yields, last_check, marked_at, pc, git_ops,
           success_criteria, original_branch, stashed_changes, feature_branch,
           initial_result, current_execution, context, attempts,
           claude_response, verification, has_changes, result, exc, calls,
           sent, runs, warnings, resets, call_args, returned, dispatcher >>

loopVars == << loop, gen, now, yields, last_check, marked_at >>

healVars == << git_ops, success_criteria, original_branch, stashed_changes,
               feature_branch, initial_result, current_execution, context,
               attempts, claude_response, verification, has_changes, result,
               exc, calls, sent, runs, warnings >>

fnVars == << call_args, returned >>

auxVars == << resets, call_args, returned, dispatcher >>

(***************************************************************************)
(* Bounds                                                                  *)
(***************************************************************************)
MaxAttemptsBound == 2      \* heal: max_attempts ranges over 1..MaxAttemptsBound
MaxTotalTimeout == 2       \* heal: total_timeout ranges over 1..MaxTotalTimeout
MaxDuration == 1           \* a collaborator call takes 0..MaxDuration seconds
LoopMaxAttempts == 3       \* LoopSpec: max_attempts ranges over 1..LoopMaxAttempts
LoopMaxTimeout == 3        \* LoopSpec: total_timeout ranges over 1..LoopMaxTimeout

MaxResets == 1             \* LoopSpec: the caller calls reset() at most MaxResets times
MaxOutputLen == 2          \* RunnerSpec: captured output has 0..MaxOutputLen bytes
MaxTextLen == 2            \* CriteriaSpec: stdout has 0..MaxTextLen characters
MaxRetryArg == 3           \* RetrySpec: max_attempts ranges over -1..MaxRetryArg
MaxClock == 4              \* DispatchSpec: the clock runs up to MaxClock
MaxDispatches == 3         \* DispatchSpec: at most MaxDispatches dispatch calls
MaxRateLimit == 2          \* DispatchSpec: rate_limit_max and rate_limit_window are at most this
MaxExitCode == 2           \* CompareSpec: exit codes are 1..MaxExitCode
MaxCommits == 1            \* TruncContextSpec: a git context has 0..MaxCommits commits
MaxTextLines == 3          \* TruncTextSpec: a text has 1..MaxTextLines lines
MaxRedactLen == 3          \* RedactSpec: a text has 0..MaxRedactLen units
MaxCtorArg == 2            \* CtorSpec: each argument ranges over -1..MaxCtorArg

T0 == 1                    \* the clock reading when the model starts
Durations == 0..MaxDuration

Min(a, b) == IF a < b THEN a ELSE b
Last(s) == s[Len(s)]

(***************************************************************************)
(* core/loop.py                                                            *)
(***************************************************************************)
HealingLoopInit(ma, tpa, tt) ==
    [ max_attempts |-> ma, timeout_per_attempt |-> tpa, total_timeout |-> tt,
      _current_attempt |-> 0, _start_time |-> 0, _success |-> FALSE ]

\* __init__ raises ValueError for these arguments
CtorRejects(ma, tpa, tt) == ma < 1 \/ tpa < 1 \/ tt < tpa

CtorError_equal_rejected(ma, tpa, tt) ==
    IF ma < 1 THEN "max_attempts must be at least 1"
    ELSE IF tpa < 1 THEN "timeout_per_attempt must be at least 1"
    ELSE IF tt <= tpa THEN "total_timeout must be >= timeout_per_attempt"
    ELSE "None"

\* lines 45-50: the message of the ValueError __init__ raises ("None": none)
CtorError(ma, tpa, tt) ==
    IF ma < 1 THEN "max_attempts must be at least 1"
    ELSE IF tpa < 1 THEN "timeout_per_attempt must be at least 1"
    ELSE IF tt < tpa THEN "total_timeout must be >= timeout_per_attempt"
    ELSE "None"

IterEnter_start_time_not_set(l, t) ==
    [ l EXCEPT !._current_attempt = 0, !._success = FALSE ]

\* lines 74-76: the generator body up to the while
IterEnter(l, t) ==
    [ l EXCEPT !._start_time = t, !._current_attempt = 0, !._success = FALSE ]

_should_continue_ignoring_success(l, t) ==
    IF l._current_attempt >= l.max_attempts THEN FALSE
    ELSE IF (t - l._start_time) >= l.total_timeout THEN FALSE
    ELSE TRUE

_should_continue_late_timeout(l, t) ==
    IF l._current_attempt >= l.max_attempts THEN FALSE
    ELSE IF (t - l._start_time) > l.total_timeout THEN FALSE
    ELSE IF l._success THEN FALSE
    ELSE TRUE

_should_continue_one_more(l, t) ==
    IF l._current_attempt > l.max_attempts THEN FALSE
    ELSE IF (t - l._start_time) >= l.total_timeout THEN FALSE
    ELSE IF l._success THEN FALSE
    ELSE TRUE

_should_continue_early_stop(l, t) ==
    IF l._current_attempt + 1 >= l.max_attempts THEN FALSE
    ELSE IF (t - l._start_time) >= l.total_timeout THEN FALSE
    ELSE IF l._success THEN FALSE
    ELSE TRUE

_should_continue(l, t) ==
    IF l._current_attempt >= l.max_attempts THEN FALSE
    ELSE IF (t - l._start_time) >= l.total_timeout THEN FALSE
    ELSE IF l._success THEN FALSE
    ELSE TRUE

mark_success(l) == [ l EXCEPT !._success = TRUE ]

reset_keeping_success(l) == [ l EXCEPT !._current_attempt = 0, !._start_time = 0 ]

\* lines 148-150
reset(l) == [ l EXCEPT !._current_attempt = 0, !._start_time = 0, !._success = FALSE ]

\* what the check of _should_continue saw (recorded for the claims)
CheckRecord(l, t) ==
    [ current_attempt |-> l._current_attempt, elapsed |-> t - l._start_time,
      success |-> l._success, ok |-> _should_continue(l, t) ]

NoCheck == [ current_attempt |-> 0, elapsed |-> 0, success |-> FALSE, ok |-> FALSE ]

\* One next() on the generator: resumes after the yield (or enters the body),
\* evaluates the while condition, increments and yields, or finishes.
GenNext ==
    /\ gen \in {"created", "suspended"}
    /\ LET l0 == IF gen = "created" THEN IterEnter(loop, now) ELSE loop
       IN  /\ last_check' = CheckRecord(l0, now)
           /\ IF _should_continue(l0, now)
              THEN /\ loop' = [ l0 EXCEPT !._current_attempt = @ + 1 ]
                   /\ yields' = Append(yields, l0._current_attempt + 1)
                   /\ gen' = "suspended"
              ELSE /\ loop' = l0
                   /\ yields' = yields
                   /\ gen' = "finished"
    /\ UNCHANGED << now, marked_at >>

MarkSuccess ==
    /\ loop' = mark_success(loop)
    /\ marked_at' = IF marked_at = 0 THEN loop._current_attempt ELSE marked_at


(***************************************************************************)
(* LoopSpec: a HealingLoop iterated by an arbitrary caller                 *)
(*   for n in loop: ...work... [loop.mark_success()] [break]               *)
(***************************************************************************)
NoResult == [ exit_code |-> 0, how |-> "none", ts |-> 0, criteria_ok |-> FALSE ]
NoContext == [ result_ts |-> 0, previous_attempts |-> << >>, redacted |-> FALSE ]
NoResponse == [ error_message |-> FALSE ]
NoVerification ==
    [ status |-> "none", execution_result |-> NoResult, previous_ts |-> 0,
      is_same_error |-> FALSE, custom_criteria_passed |-> "None" ]
NoHealingResult ==
    [ success |-> FALSE, attempts |-> << >>, final_execution |-> NoResult,
      pr_url |-> "None", error_message |-> << >> ]

\* no function call is under way
NoReturn == [ done |-> FALSE, raised |-> "None" ]

FnIdle ==
    /\ call_args = << >>
    /\ returned = NoReturn

\* no NotificationDispatcher has been constructed
NoDispatcher ==
    [ channels |-> << >>, rate_limit_window |-> 0, rate_limit_max |-> 0,
      _notification_times |-> << >> ]

HealLocalsInit ==
    /\ dispatcher = NoDispatcher
    /\ original_branch = "None"
    /\ stashed_changes = FALSE
    /\ feature_branch = "None"
    /\ initial_result = NoResult
    /\ current_execution = NoResult
    /\ context = NoContext
    /\ attempts = << >>
    /\ claude_response = NoResponse
    /\ verification = NoVerification
    /\ has_changes = FALSE
    /\ result = NoHealingResult
    /\ exc = "None"
    /\ calls = << >>
    /\ sent = << >>
    /\ runs = 0
    /\ warnings = {}

LoopStateInit(MA, TT) ==
    /\ \E ma \in 1..MA, tt \in 1..TT : loop = HealingLoopInit(ma, 1, tt)
    /\ gen = "none"
    /\ now = T0
    /\ yields = << >>
    /\ last_check = NoCheck
    /\ marked_at = 0

LoopInit ==
    /\ LoopStateInit(LoopMaxAttempts, LoopMaxTimeout)
    /\ pc = "for"
    /\ git_ops = FALSE
    /\ success_criteria = FALSE
    /\ HealLocalsInit
    /\ resets = 0
    /\ FnIdle

\* `for attempt_number in loop`: iter(loop) creates the generator
CallerIter ==
    /\ pc = "for"
    /\ gen = "none"
    /\ gen' = "created"
    /\ UNCHANGED << loop, now, yields, last_check, marked_at, pc >>
    /\ UNCHANGED healVars
    /\ UNCHANGED auxVars

\* the for statement asks for the next value
CallerNext ==
    /\ pc = "for"
    /\ GenNext
    /\ pc' = IF _should_continue(IF gen = "created" THEN IterEnter(loop, now) ELSE loop, now)
             THEN "body" ELSE "after"
    /\ UNCHANGED healVars
    /\ UNCHANGED auxVars

\* the loop body does some work: wall-clock time passes
CallerWork ==
    /\ pc = "body"
    /\ (now - loop._start_time) <= loop.total_timeout
    /\ \E d \in Durations \ {0} : now' = now + d
    /\ UNCHANGED << loop, gen, yields, last_check, marked_at, pc >>
    /\ UNCHANGED healVars
    /\ UNCHANGED auxVars

\* the loop body calls loop.mark_success()
CallerMarkSuccess ==
    /\ pc = "body"
    /\ MarkSuccess
    /\ UNCHANGED << gen, now, yields, last_check, pc >>
    /\ UNCHANGED healVars
    /\ UNCHANGED auxVars

\* the loop body ends: control returns to the for statement
CallerContinue ==
    /\ pc = "body"
    /\ pc' = "for"
    /\ UNCHANGED loopVars
    /\ UNCHANGED healVars
    /\ UNCHANGED auxVars

\* the loop body executes break: the generator is dropped
CallerBreak ==
    /\ pc = "body"
    /\ pc' = "after"
    /\ gen' = "abandoned"
    /\ UNCHANGED << loop, now, yields, last_check, marked_at >>
    /\ UNCHANGED healVars
    /\ UNCHANGED auxVars

\* after the for statement the caller calls loop.reset() to reuse the loop;
\* the records kept for the claims start over with the new session
CallerReset ==
    /\ pc = "after"
    /\ resets < MaxResets
    /\ loop' = reset(loop)
    /\ resets' = resets + 1
    /\ gen' = "none"
    /\ pc' = "for"
    /\ yields' = << >>
    /\ last_check' = NoCheck
    /\ marked_at' = 0
    /\ UNCHANGED << now, dispatcher >>
    /\ UNCHANGED fnVars
    /\ UNCHANGED << git_ops, success_criteria, original_branch, stashed_changes,
                    feature_branch, initial_result, current_execution, context,
                    attempts, claude_response, verification, has_changes, result,
                    exc, calls, sent, runs, warnings >>

LoopNext ==
    \/ CallerIter
    \/ CallerNext
    \/ CallerWork
    \/ CallerMarkSuccess
    \/ CallerContinue
    \/ CallerBreak
    \/ CallerReset

LoopSpec == LoopInit /\ [][LoopNext]_vars


(***************************************************************************)
(* CtorSpec: HealingLoop(max_attempts, timeout_per_attempt, total_timeout) *)
(***************************************************************************)
\* everything but loop, pc and the function call is at rest
RestIdle ==
    /\ gen = "none"
    /\ now = T0
    /\ yields = << >>
    /\ last_check = NoCheck
    /\ marked_at = 0
    /\ git_ops = FALSE
    /\ success_criteria = FALSE
    /\ HealLocalsInit
    /\ resets = 0

\* the instance before __init__ has assigned any attribute
NoLoop ==
    [ max_attempts |-> -1, timeout_per_attempt |-> -1, total_timeout |-> -1,
      _current_attempt |-> -1, _start_time |-> -1, _success |-> TRUE ]

CtorArgs == (-1)..MaxCtorArg

CtorInit ==
    /\ call_args \in [ max_attempts : CtorArgs, timeout_per_attempt : CtorArgs,
                        total_timeout : CtorArgs ]
    /\ returned = NoReturn
    /\ loop = NoLoop
    /\ pc = "call"
    /\ RestIdle

\* lines 45-58
Construct ==
    /\ pc = "call"
    /\ pc' = "done"
    /\ LET e == CtorError(call_args.max_attempts, call_args.timeout_per_attempt,
                          call_args.total_timeout)
       IN  /\ returned' = [ done |-> TRUE, raised |-> e ]
           /\ loop' = IF e # "None" THEN loop
                      ELSE HealingLoopInit(call_args.max_attempts,
                                           call_args.timeout_per_attempt,
                                           call_args.total_timeout)
    /\ UNCHANGED << gen, now, yields, last_check, marked_at, resets, call_args,
                    dispatcher >>
    /\ UNCHANGED healVars

CtorNext == Construct

CtorSpec == CtorInit /\ [][CtorNext]_vars


(***************************************************************************)
(* core/runner.py, core/context.py, security/redactor.py: what heal uses   *)
(***************************************************************************)
\* ExecutionResult: exit_code as run_script sets it; `how` says how the run
\* ended; ts stands for the timestamp (the ordinal of the run); criteria_ok
\* is what check_custom_criteria gives for this result and the script's
\* success_criteria.
ExitedRuns(t, crit) ==
    { [ exit_code |-> c, how |-> "exit", ts |-> t, criteria_ok |-> k ] :
        c \in {0, 1}, k \in crit }
SignaledRuns(t, crit) ==
    { [ exit_code |-> -1, how |-> "signal", ts |-> t, criteria_ok |-> k ] : k \in crit }
TimedOutRuns(t, crit) ==
    { [ exit_code |-> -1, how |-> "timeout", ts |-> t, criteria_ok |-> k ] : k \in crit }
LaunchFailedRuns(t, crit) ==
    { [ exit_code |-> -2, how |-> "launch", ts |-> t, criteria_ok |-> k ] : k \in crit }

\* the results run_script can return for run number t
run_script(t, has_criteria) ==
    LET crit == IF has_criteria THEN BOOLEAN ELSE {FALSE}
    IN  ExitedRuns(t, crit) \cup SignaledRuns(t, crit)
          \cup TimedOutRuns(t, crit) \cup LaunchFailedRuns(t, crit)

\* ExecutionResult.success
success(r) == r.exit_code = 0

_determine_verification_status_criteria_first(current_result, is_same_error, custom_criteria_passed) ==
    IF custom_criteria_passed # "None"
    THEN IF custom_criteria_passed = "True" THEN "success"
         ELSE IF is_same_error THEN "same_error" ELSE "different_error"
    ELSE IF current_result.exit_code = -1 THEN "timeout"
    ELSE IF success(current_result) THEN "success"
    ELSE IF is_same_error THEN "same_error"
    ELSE "different_error"

_determine_verification_status(current_result, is_same_error, custom_criteria_passed) ==
    IF current_result.exit_code = -1 THEN "timeout"
    ELSE IF custom_criteria_passed # "None"
         THEN IF custom_criteria_passed = "True" THEN "success"
              ELSE IF is_same_error THEN "same_error" ELSE "different_error"
    ELSE IF success(current_result) THEN "success"
    ELSE IF is_same_error THEN "same_error"
    ELSE "different_error"

\* verify_fix after the re-run: comparison, criteria, classification
verify_fix(previous_result, current_result, is_same_error, has_criteria) ==
    LET custom_criteria_passed ==
            IF has_criteria
            THEN (IF current_result.criteria_ok THEN "True" ELSE "False")
            ELSE "None"
    IN  [ status |-> _determine_verification_status(
                         current_result, is_same_error, custom_criteria_passed),
          execution_result |-> current_result,
          previous_ts |-> previous_result.ts,
          is_same_error |-> is_same_error,
          custom_criteria_passed |-> custom_criteria_passed ]

build_context(r) ==
    [ result_ts |-> r.ts, previous_attempts |-> << >>, redacted |-> FALSE ]

redact_previous_attempt(a) == [ a EXCEPT !.redacted = TRUE ]

redact_context(c) ==
    [ c EXCEPT !.redacted = TRUE,
               !.previous_attempts =
                   [ i \in DOMAIN c.previous_attempts |->
                       redact_previous_attempt(c.previous_attempts[i]) ] ]

PreviousAttempt(attempt) ==
    [ attempt_number |-> attempt.attempt_number, redacted |-> FALSE ]

WithPreviousAttempts_history_dropped(new_context, c, previous_attempt) ==
    [ new_context EXCEPT !.previous_attempts = << previous_attempt >>,
                         !.redacted = FALSE ]

\* new_context.previous_attempts = context.previous_attempts + [previous_attempt]
WithPreviousAttempts(new_context, c, previous_attempt) ==
    [ new_context EXCEPT !.previous_attempts =
                            Append(c.previous_attempts, previous_attempt),
                         !.redacted = FALSE ]

_enhance_context_for_retry(c, attempt, r) ==
    redact_context(WithPreviousAttempts(build_context(r), c, PreviousAttempt(attempt)))

DifferentErrorContextUnredacted(c, attempt, r) ==
    WithPreviousAttempts(build_context(r), c, PreviousAttempt(attempt))

\* healer.py lines 292-314
DifferentErrorContext(c, attempt, r) ==
    redact_context(WithPreviousAttempts(build_context(r), c, PreviousAttempt(attempt)))

NextContext(c, attempt, v) ==
    IF v.status = "same_error"
    THEN _enhance_context_for_retry(c, attempt, v.execution_result)
    ELSE IF v.status = "different_error"
    THEN DifferentErrorContext(c, attempt, v.execution_result)
    ELSE IF v.status = "timeout"
    THEN _enhance_context_for_retry(c, attempt, v.execution_result)
    ELSE c

Call(op, outcome) == [ op |-> op, outcome |-> outcome ]
Msg(kind, n, warning) == [ kind |-> kind, n |-> n, warning |-> warning ]


(***************************************************************************)
(* core/healer.py: Healer.heal, one action per collaborator call           *)
(*                                                                         *)
(* The clock is read only by the loop, relative to the _start_time it sets *)
(* at its first next(); so time is advanced only by the two collaborator   *)
(* calls made inside the loop (request_fix and the verification run).      *)
(***************************************************************************)
Init ==
    /\ LoopStateInit(MaxAttemptsBound, MaxTotalTimeout)
    /\ pc = "stash"
    /\ git_ops \in BOOLEAN
    /\ success_criteria \in BOOLEAN
    /\ HealLocalsInit
    /\ resets = 0
    /\ FnIdle

\* an exception leaves the try body of heal: control goes to the except clause
Raise(e, op) ==
    /\ exc' = e
    /\ pc' = "except"
    /\ calls' = Append(calls, Call(op, "raise"))

\* lines 151-160: has_uncommitted_changes(), then stash_changes()
HealStash ==
    /\ pc = "stash"
    /\ IF ~git_ops
       THEN /\ pc' = "branch"
            /\ UNCHANGED << stashed_changes, exc, calls, warnings >>
       ELSE \/ /\ Raise("GitOperationError", "has_uncommitted_changes")
               /\ UNCHANGED << stashed_changes, warnings >>
            \/ /\ pc' = "branch"
               /\ calls' = Append(calls, Call("has_uncommitted_changes", "False"))
               /\ UNCHANGED << stashed_changes, exc, warnings >>
            \/ /\ pc' = "branch"
               /\ \E o \in {"ok", "error"} :
                    /\ calls' = calls \o << Call("has_uncommitted_changes", "True"),
                                           Call("stash_changes", o) >>
                    /\ stashed_changes' = (o = "ok")
                    /\ warnings' = IF o = "ok" THEN warnings
                                   ELSE warnings \cup {"Failed to stash changes"}
               /\ UNCHANGED exc
    /\ UNCHANGED loopVars
    /\ UNCHANGED auxVars
    /\ UNCHANGED << git_ops, success_criteria, original_branch, feature_branch,
                    initial_result, current_execution, context, attempts,
                    claude_response, verification, has_changes, result, sent, runs >>

\* lines 162-177: get_current_branch(), then checkout / create the feature branch
HealBranch ==
    /\ pc = "branch"
    /\ pc' = "run_initial"
    /\ IF ~git_ops
       THEN UNCHANGED << original_branch, feature_branch, calls, warnings >>
       ELSE \/ /\ calls' = Append(calls, Call("get_current_branch", "error"))
               /\ warnings' = warnings \cup {"Failed to create/checkout feature branch"}
               /\ UNCHANGED << original_branch, feature_branch >>
            \/ /\ original_branch' = "main"
               /\ feature_branch' = "lazarus-fix"
               /\ \E o \in {"ok", "error"} :
                    /\ calls' = calls \o << Call("get_current_branch", "ok"),
                                           Call("checkout_feature", o) >>
                    /\ warnings' = IF o = "ok" THEN warnings
                                   ELSE warnings \cup
                                          {"Failed to create/checkout feature branch"}
    /\ UNCHANGED loopVars
    /\ UNCHANGED auxVars
    /\ UNCHANGED << git_ops, success_criteria, stashed_changes, initial_result,
                    current_execution, context, attempts, claude_response,
                    verification, has_changes, result, exc, sent, runs >>

InitialRunNext_always_heals(r) == "build_context"

\* line 187: `if initial_result.success:` returns through _finalize_healing
InitialRunNext(r) == IF success(r) THEN "fin_push" ELSE "build_context"

\* lines 180-204: the initial run; a successful run goes straight to finalization
HealRunInitial ==
    /\ pc = "run_initial"
    /\ \/ /\ Raise("ValueError", "run_script")
          /\ UNCHANGED << initial_result, result, runs >>
       \/ \E r \in run_script(runs + 1, success_criteria) :
            /\ initial_result' = r
            /\ runs' = runs + 1
            /\ calls' = Append(calls, Call("run_script", "ok"))
            /\ result' = IF success(r)
                          THEN [ success |-> TRUE, attempts |-> << >>,
                                 final_execution |-> r, pr_url |-> "None",
                                 error_message |-> << >> ]
                          ELSE result
            /\ pc' = InitialRunNext(r)
            /\ UNCHANGED exc
    /\ UNCHANGED loopVars
    /\ UNCHANGED auxVars
    /\ UNCHANGED << git_ops, success_criteria, original_branch, stashed_changes,
                    feature_branch, current_execution, context, attempts,
                    claude_response, verification, has_changes, sent, warnings >>

\* lines 206-225: build_context, redact_context, ClaudeCodeClient(...)
HealBuildContext ==
    /\ pc = "build_context"
    /\ \/ /\ Raise("FileNotFoundError", "build_context")
          /\ UNCHANGED context
       \/ /\ context' = redact_context(build_context(initial_result))
          /\ pc' = "check_agent"
          /\ UNCHANGED << exc, calls >>
    /\ UNCHANGED loopVars
    /\ UNCHANGED auxVars
    /\ UNCHANGED << git_ops, success_criteria, original_branch, stashed_changes,
                    feature_branch, initial_result, current_execution, attempts,
                    claude_response, verification, has_changes, result, sent,
                    runs, warnings >>

AgentUnavailableResultWithoutMessage(r) ==
    [ success |-> FALSE, attempts |-> << >>, final_execution |-> r,
      pr_url |-> "None", error_message |-> << >> ]

\* lines 230-239
AgentUnavailableResult(r) ==
    [ success |-> FALSE, attempts |-> << >>, final_execution |-> r,
      pr_url |-> "None",
      error_message |-> << Msg("Claude Code CLI is not available", 0, FALSE) >> ]

\* lines 227-251: is_available(); the unavailable agent ends the session.
\* Line 251 is the last use of the local initial_result.
HealCheckAgent ==
    /\ pc = "check_agent"
    /\ \/ /\ calls' = Append(calls, Call("is_available", "False"))
          /\ result' = AgentUnavailableResult(initial_result)
          /\ pc' = "fin_push"
          /\ UNCHANGED << current_execution, initial_result >>
       \/ /\ calls' = Append(calls, Call("is_available", "True"))
          /\ current_execution' = initial_result
          /\ initial_result' = NoResult
          /\ pc' = "for"
          /\ UNCHANGED result
    /\ UNCHANGED loopVars
    /\ UNCHANGED auxVars
    /\ UNCHANGED << git_ops, success_criteria, original_branch, stashed_changes,
                    feature_branch, context, attempts,
                    claude_response, verification, has_changes, exc, sent, runs,
                    warnings >>

\* line 253, first time: iter(self.loop)
HealIter ==
    /\ pc = "for"
    /\ gen = "none"
    /\ gen' = "created"
    /\ UNCHANGED << loop, now, yields, last_check, marked_at, pc >>
    /\ UNCHANGED healVars
    /\ UNCHANGED auxVars

\* line 253: the for statement takes the next attempt number or ends the loop
HealForNext ==
    /\ pc = "for"
    /\ GenNext
    /\ pc' = IF _should_continue(IF gen = "created" THEN IterEnter(loop, now) ELSE loop, now)
             THEN "request_fix" ELSE "finalize"
    /\ UNCHANGED healVars
    /\ UNCHANGED auxVars

\* line 257: claude_client.request_fix(context)
HealRequestFix ==
    /\ pc = "request_fix"
    /\ \/ /\ Raise("RuntimeError", "request_fix")
          /\ UNCHANGED << claude_response, sent, now >>
       \/ /\ \E e \in BOOLEAN : claude_response' = [ error_message |-> e ]
          /\ \E d \in Durations : now' = now + d
          /\ sent' = Append(sent, context)
          /\ calls' = Append(calls, Call("request_fix", "ok"))
          /\ pc' = "verify"
          /\ UNCHANGED exc
    /\ UNCHANGED << loop, gen, yields, last_check, marked_at >>
    /\ UNCHANGED auxVars
    /\ UNCHANGED << git_ops, success_criteria, original_branch, stashed_changes,
                    feature_branch, initial_result, current_execution, context,
                    attempts, verification, has_changes, result, runs, warnings >>

HealingAttempt(attempt_number, v) ==
    [ attempt_number |-> attempt_number, status |-> v.status,
      ts |-> v.execution_result.ts ]

HealVerify_keeps_first_execution ==
    /\ pc = "verify"
    /\ \/ /\ Raise("FileNotFoundError", "run_script")
          /\ UNCHANGED << loop, gen, marked_at, now, verification, attempts,
                          current_execution, runs >>
       \/ \E r \in run_script(runs + 1, success_criteria), same \in BOOLEAN,
             d \in Durations :
            LET v == verify_fix(current_execution, r, same, success_criteria)
            IN  /\ now' = now + d
                /\ runs' = runs + 1
                /\ calls' = Append(calls, Call("run_script", "ok"))
                /\ verification' = v
                /\ attempts' = Append(attempts, HealingAttempt(Last(yields), v))
                /\ current_execution' = current_execution
                /\ IF v.status = "success"
                   THEN /\ MarkSuccess
                        /\ gen' = "abandoned"
                        /\ pc' = "finalize"
                   ELSE /\ UNCHANGED << loop, marked_at, gen >>
                        /\ pc' = "update_context"
                /\ UNCHANGED exc
    /\ UNCHANGED << yields, last_check >>
    /\ UNCHANGED auxVars
    /\ UNCHANGED << git_ops, success_criteria, original_branch, stashed_changes,
                    feature_branch, initial_result, context, claude_response,
                    has_changes, result, sent, warnings >>

\* lines 259-283: verify_fix re-runs the script; the attempt is recorded;
\* on success the loop is marked and left with break
HealVerify ==
    /\ pc = "verify"
    /\ \/ /\ Raise("FileNotFoundError", "run_script")
          /\ UNCHANGED << loop, gen, marked_at, now, verification, attempts,
                          current_execution, runs >>
       \/ \E r \in run_script(runs + 1, success_criteria), same \in BOOLEAN,
             d \in Durations :
            LET v == verify_fix(current_execution, r, same, success_criteria)
            IN  /\ now' = now + d
                /\ runs' = runs + 1
                /\ calls' = Append(calls, Call("run_script", "ok"))
                /\ verification' = v
                /\ attempts' = Append(attempts, HealingAttempt(Last(yields), v))
                /\ current_execution' = v.execution_result
                /\ IF v.status = "success"
                   THEN /\ MarkSuccess
                        /\ gen' = "abandoned"
                        /\ pc' = "finalize"
                   ELSE /\ UNCHANGED << loop, marked_at, gen >>
                        /\ pc' = "update_context"
                /\ UNCHANGED exc
    /\ UNCHANGED << yields, last_check >>
    /\ UNCHANGED auxVars
    /\ UNCHANGED << git_ops, success_criteria, original_branch, stashed_changes,
                    feature_branch, initial_result, context, claude_response,
                    has_changes, result, sent, warnings >>

\* lines 285-320: the context for the next request
HealUpdateContext ==
    /\ pc = "update_context"
    /\ \/ /\ Raise("FileNotFoundError", "build_context")
          /\ UNCHANGED context
       \/ /\ context' = NextContext(context, Last(attempts), verification)
          /\ pc' = "for"
          /\ UNCHANGED << exc, calls >>
    /\ UNCHANGED loopVars
    /\ UNCHANGED auxVars
    /\ UNCHANGED << git_ops, success_criteria, original_branch, stashed_changes,
                    feature_branch, initial_result, current_execution, attempts,
                    claude_response, verification, has_changes, result, sent,
                    runs, warnings >>

final_success_any_attempt(atts) ==
    \E i \in DOMAIN atts : atts[i].status \in {"success", "different_error"}

\* line 325
final_success(atts) == atts # << >> /\ Last(atts).status = "success"

\* lines 327-338
FinalErrorMessage(atts, resp) ==
    IF final_success(atts) THEN << >>
    ELSE IF atts = << >> THEN << Msg("No healing attempts were made", 0, FALSE) >>
    ELSE IF resp.error_message THEN << Msg("claude_response.error_message", 0, FALSE) >>
    ELSE << Msg("Failed to heal after N attempts", Len(atts), FALSE) >>

\* lines 322-357: the HealingResult handed to _finalize_healing; the locals
\* context, claude_response and verification are dead from here on
HealFinalize ==
    /\ pc = "finalize"
    /\ result' = [ success |-> final_success(attempts),
                   attempts |-> attempts,
                   final_execution |-> current_execution,
                   pr_url |-> "None",
                   error_message |-> FinalErrorMessage(attempts, claude_response) ]
    /\ has_changes' = (attempts # << >>)
    /\ context' = NoContext
    /\ claude_response' = NoResponse
    /\ verification' = NoVerification
    /\ pc' = "fin_push"
    /\ UNCHANGED loopVars
    /\ UNCHANGED auxVars
    /\ UNCHANGED << git_ops, success_criteria, original_branch, stashed_changes,
                    feature_branch, initial_result, current_execution, attempts,
                    exc, calls, sent, runs, warnings >>


(***************************************************************************)
(* core/healer.py: Healer._finalize_healing and the except clause of heal  *)
(***************************************************************************)
\* `if not result.error_message: ... = text  else: ... += "\nWarning: " text`
AddWarning(res, kind) ==
    [ res EXCEPT !.error_message =
                    Append(@, Msg(kind, 0, res.error_message # << >>)) ]

PushOutcomes == {"ok", "error", "raise"}

PushWithoutFinally(o, next) ==
    /\ calls' = Append(calls, Call("push", o))
    /\ warnings' = IF o = "error" THEN warnings \cup {"Failed to push branch"}
                   ELSE warnings
    /\ exc' = IF o = "raise" THEN "UnexpectedError" ELSE exc
    /\ pc' = IF o = "raise" THEN "except" ELSE next

\* the push at lines 520-524 / 556-560 with outcome o; an exception that is
\* not a GitOperationError leaves the try block for the finally clause
Push(o, next) ==
    /\ calls' = Append(calls, Call("push", o))
    /\ warnings' = IF o = "error" THEN warnings \cup {"Failed to push branch"}
                   ELSE warnings
    /\ exc' = IF o = "raise" THEN "UnexpectedError" ELSE exc
    /\ pc' = IF o = "raise" THEN "fin_checkout" ELSE next

\* lines 513-528 (Step 1)
FinPush ==
    /\ pc = "fin_push"
    /\ IF ~git_ops
       THEN /\ pc' = "notify"
            /\ UNCHANGED << calls, warnings, exc >>
       ELSE \E has_remote \in BOOLEAN :
              IF has_changes /\ feature_branch # "None" /\ has_remote
              THEN \E o \in PushOutcomes : Push(o, "fin_pr")
              ELSE /\ pc' = "fin_pr"
                   /\ UNCHANGED << calls, warnings, exc >>
    /\ UNCHANGED loopVars
    /\ UNCHANGED auxVars
    /\ UNCHANGED << git_ops, success_criteria, original_branch, stashed_changes,
                    feature_branch, initial_result, current_execution, context,
                    attempts, claude_response, verification, has_changes, result,
                    sent, runs >>

ShouldCreatePR_ignoring_success(res, changes, create_pr) == changes /\ create_pr

\* line 531: `if result.success and has_changes and self.config.git.create_pr`
ShouldCreatePR(res, changes, create_pr) == res.success /\ changes /\ create_pr

\* lines 530-563 (Step 2 and, in its elif, Step 3)
FinCreatePR ==
    /\ pc = "fin_pr"
    /\ \E create_pr \in BOOLEAN, has_remote \in BOOLEAN :
         IF ShouldCreatePR(result, has_changes, create_pr)
         THEN \E o \in {"url", "no_url", "raise"} :
                /\ calls' = Append(calls, Call("create_pr", o))
                /\ result' = IF o = "url" THEN [ result EXCEPT !.pr_url = "url" ]
                             ELSE result
                /\ warnings' = IF o = "url" THEN warnings
                               ELSE warnings \cup {"Failed to create PR"}
                /\ pc' = "fin_checkout"
                /\ UNCHANGED exc
         ELSE IF ~result.success /\ has_changes /\ feature_branch # "None" /\ has_remote
         THEN /\ \E o \in PushOutcomes : Push(o, "fin_checkout")
              /\ UNCHANGED result
         ELSE /\ pc' = "fin_checkout"
              /\ UNCHANGED << calls, warnings, exc, result >>
    /\ UNCHANGED loopVars
    /\ UNCHANGED auxVars
    /\ UNCHANGED << git_ops, success_criteria, original_branch, stashed_changes,
                    feature_branch, initial_result, current_execution, context,
                    attempts, claude_response, verification, has_changes, sent,
                    runs >>

\* lines 565-578 (finally, Step 4)
FinCheckout ==
    /\ pc = "fin_checkout"
    /\ pc' = "fin_pop"
    /\ IF original_branch # "None"
       THEN \E o \in {"ok", "error"} :
              /\ calls' = Append(calls, Call("checkout_original", o))
              /\ result' = IF o = "ok" THEN result
                           ELSE AddWarning(result, "Failed to return to original branch")
       ELSE UNCHANGED << calls, result >>
    /\ UNCHANGED loopVars
    /\ UNCHANGED auxVars
    /\ UNCHANGED << git_ops, success_criteria, original_branch, stashed_changes,
                    feature_branch, initial_result, current_execution, context,
                    attempts, claude_response, verification, has_changes, exc,
                    sent, runs, warnings >>

\* lines 580-592 (finally, Step 5); a pending exception then propagates to heal
FinPopStash ==
    /\ pc = "fin_pop"
    /\ pc' = IF exc # "None" THEN "except" ELSE "notify"
    /\ IF stashed_changes
       THEN \E o \in {"ok", "error"} :
              /\ calls' = Append(calls, Call("pop_stash", o))
              /\ result' = IF o = "ok" THEN result
                           ELSE AddWarning(result, "Failed to restore stashed changes")
       ELSE UNCHANGED << calls, result >>
    /\ UNCHANGED loopVars
    /\ UNCHANGED auxVars
    /\ UNCHANGED << git_ops, success_criteria, original_branch, stashed_changes,
                    feature_branch, initial_result, current_execution, context,
                    attempts, claude_response, verification, has_changes, exc,
                    sent, runs, warnings >>

\* lines 594-610: notifications, then return result
FinNotify ==
    /\ pc = "notify"
    /\ pc' = "returned"
    /\ \/ UNCHANGED << calls, warnings >>
       \/ /\ calls' = Append(calls, Call("dispatch", "ok"))
          /\ UNCHANGED warnings
       \/ /\ calls' = Append(calls, Call("dispatch", "raise"))
          /\ warnings' = warnings \cup {"Failed to send notifications"}
    /\ UNCHANGED loopVars
    /\ UNCHANGED auxVars
    /\ UNCHANGED << git_ops, success_criteria, original_branch, stashed_changes,
                    feature_branch, initial_result, current_execution, context,
                    attempts, claude_response, verification, has_changes, result,
                    exc, sent, runs >>

\* lines 359-369: emergency cleanup, then the exception is re-raised
HealExcept ==
    /\ pc = "except"
    /\ pc' = "raised"
    /\ IF git_ops /\ original_branch # "None"
       THEN \/ /\ calls' = Append(calls, Call("checkout_original", "error"))
               /\ warnings' = warnings \cup {"Failed to clean up git state"}
            \/ /\ ~stashed_changes
               /\ calls' = Append(calls, Call("checkout_original", "ok"))
               /\ UNCHANGED warnings
            \/ /\ stashed_changes
               /\ \E o \in {"ok", "error"} :
                    /\ calls' = calls \o << Call("checkout_original", "ok"),
                                           Call("pop_stash", o) >>
                    /\ warnings' = IF o = "ok" THEN warnings
                                   ELSE warnings \cup {"Failed to clean up git state"}
       ELSE UNCHANGED << calls, warnings >>
    /\ UNCHANGED loopVars
    /\ UNCHANGED auxVars
    /\ UNCHANGED << git_ops, success_criteria, original_branch, stashed_changes,
                    feature_branch, initial_result, current_execution, context,
                    attempts, claude_response, verification, has_changes, result,
                    exc, sent, runs >>

Next ==
    \/ HealStash
    \/ HealBranch
    \/ HealRunInitial
    \/ HealBuildContext
    \/ HealCheckAgent
    \/ HealIter
    \/ HealForNext
    \/ HealRequestFix
    \/ HealVerify
    \/ HealUpdateContext
    \/ HealFinalize
    \/ FinPush
    \/ FinCreatePR
    \/ FinCheckout
    \/ FinPopStash
    \/ FinNotify
    \/ HealExcept

Spec == Init /\ [][Next]_vars

\* heal is sequential code on one thread: as long as it has neither returned
\* nor raised, its next step is eventually taken (every call it makes comes
\* back, with a value or with an exception)
FairSpec == Spec /\ WF_vars(Next)


(***************************************************************************)
(* RunnerSpec: one call of ScriptRunner.run_script (core/runner.py)        *)
(***************************************************************************)
SeqsUpTo(S, n) == UNION { [ 1..k -> S ] : k \in 0..n }

\* the bytes a script writes: 0x61 is "a" in UTF-8, 0xff is no valid UTF-8
Bytes == {"0x61", "0xff"}

\* bytes.decode(): raises UnicodeDecodeError on a byte that is not UTF-8
CanDecode(b) == \A i \in DOMAIN b : b[i] = "0x61"
decode(b) == [ i \in DOMAIN b |-> "a" ]

\* what subprocess.run does: it returns a CompletedProcess (text=True: the
\* output as str; a negative returncode is a signal), or raises
\* TimeoutExpired carrying the bytes captured so far (none: << >>), or
\* raises OSError / SubprocessError
Completed ==
    [ kind : {"completed"}, returncode : {0, 1, -9},
      stdout : SeqsUpTo({"a"}, 1), stderr : SeqsUpTo({"a"}, 1) ]
TimedOut ==
    [ kind : {"TimeoutExpired"}, returncode : {0},
      stdout : SeqsUpTo(Bytes, MaxOutputLen), stderr : SeqsUpTo(Bytes, MaxOutputLen) ]
LaunchFailed ==
    [ kind : {"OSError", "SubprocessError"}, returncode : {0},
      stdout : {<< >>}, stderr : {<< >>} ]
SubprocessOutcomes == Completed \cup TimedOut \cup LaunchFailed

NoExecution == [ exit_code |-> 0, stdout |-> << >>, stderr |-> << >> ]
Raises(e) == [ done |-> TRUE, raised |-> e, value |-> NoExecution ]
Returns(v) == [ done |-> TRUE, raised |-> "None", value |-> v ]

\* lines 79-147; path says what script_path points to, interpreter whether
\* get_interpreter finds one, o what subprocess.run does
ScriptRunner_run_script(path, interpreter, o) ==
    IF path = "missing" THEN Raises("FileNotFoundError")
    ELSE IF path = "directory" THEN Raises("ValueError")
    ELSE IF interpreter = "unknown" THEN Raises("ValueError")
    ELSE IF o.kind = "completed"
    THEN Returns([ exit_code |-> o.returncode, stdout |-> o.stdout,
                   stderr |-> o.stderr ])
    ELSE IF o.kind = "TimeoutExpired"
    THEN IF ~CanDecode(o.stdout) \/ ~CanDecode(o.stderr)
         THEN Raises("UnicodeDecodeError")
         ELSE Returns([ exit_code |-> -1,
                        stdout |-> IF o.stdout # << >> THEN decode(o.stdout) ELSE << >>,
                        stderr |-> (IF o.stderr # << >> THEN decode(o.stderr) ELSE << >>)
                                      \o << "[TIMEOUT]" >> ])
    ELSE Returns([ exit_code |-> -2, stdout |-> << >>,
                   stderr |-> << "[EXECUTION ERROR]", o.kind >> ])

RunnerInit ==
    /\ call_args \in [ path : {"missing", "directory", "file"},
                        interpreter : {"known", "unknown"},
                        outcome : SubprocessOutcomes ]
    /\ returned = NoReturn
    /\ loop = HealingLoopInit(1, 1, 1)
    /\ pc = "call"
    /\ RestIdle

RunScript ==
    /\ pc = "call"
    /\ pc' = "done"
    /\ returned' = ScriptRunner_run_script(call_args.path, call_args.interpreter,
                                           call_args.outcome)
    /\ UNCHANGED << loop, gen, now, yields, last_check, marked_at, resets, call_args,
                    dispatcher >>
    /\ UNCHANGED healVars

RunnerNext == RunScript

RunnerSpec == RunnerInit /\ [][RunnerNext]_vars


(***************************************************************************)
(* CriteriaSpec: one call of check_custom_criteria (core/verification.py)  *)
(***************************************************************************)
Chars == {"a", "1"}

\* a value of the criteria map: a str or an int
PyStr(t) == [ type |-> "str", s |-> t, n |-> 0 ]
PyInt(n) == [ type |-> "int", s |-> << >>, n |-> n ]

\* str(value), for a str and for an int in 0..9
DigitChars == << "0", "1", "2", "3", "4", "5", "6", "7", "8", "9" >>
str(v) == IF v.type = "int" THEN << DigitChars[v.n + 1] >> ELSE v.s

\* float(value) for an int
float(v) == v.n

\* `pattern in text`
Contains(pattern, text) ==
    \E i \in 0..(Len(text) - Len(pattern)) :
        SubSeq(text, i + 1, i + Len(pattern)) = pattern

\* re.search(pattern, text) for patterns made of literal characters, a
\* leading "^" and "(": an unclosed parenthesis is an re.error
re_search(pattern, text) ==
    IF \E i \in DOMAIN pattern : pattern[i] = "(" THEN "re.error"
    ELSE IF pattern # << >> /\ pattern[1] = "^"
    THEN (IF Len(pattern) - 1 <= Len(text)
             /\ SubSeq(text, 1, Len(pattern) - 1) = Tail(pattern)
          THEN "Match" ELSE "None")
    ELSE IF Contains(pattern, text) THEN "Match" ELSE "None"

check_custom_criteria_regex_error_passes(res, criteria) ==
    IF criteria.exit_code.present /\ res.exit_code # criteria.exit_code.value.n
    THEN FALSE
    ELSE IF criteria.contains.present
            /\ ~Contains(str(criteria.contains.value), res.stdout)
    THEN FALSE
    ELSE IF criteria.not_contains.present
            /\ (\/ Contains(str(criteria.not_contains.value), res.stdout)
                \/ Contains(str(criteria.not_contains.value), res.stderr))
    THEN FALSE
    ELSE IF criteria.regex_match.present
            /\ re_search(str(criteria.regex_match.value), res.stdout) = "None"
    THEN FALSE
    ELSE IF criteria.stderr_contains.present
            /\ ~Contains(str(criteria.stderr_contains.value), res.stderr)
    THEN FALSE
    ELSE IF criteria.stderr_not_contains.present
            /\ Contains(str(criteria.stderr_not_contains.value), res.stderr)
    THEN FALSE
    ELSE IF criteria.duration_less_than.present
            /\ res.duration >= float(criteria.duration_less_than.value)
    THEN FALSE
    ELSE TRUE

check_custom_criteria_default_exit_code(res, criteria) ==
    IF criteria.exit_code.present /\ res.exit_code # criteria.exit_code.value.n
    THEN FALSE
    ELSE IF criteria.contains.present
            /\ ~Contains(str(criteria.contains.value), res.stdout)
    THEN FALSE
    ELSE IF criteria.not_contains.present
            /\ (\/ Contains(str(criteria.not_contains.value), res.stdout)
                \/ Contains(str(criteria.not_contains.value), res.stderr))
    THEN FALSE
    ELSE IF criteria.regex_match.present
            /\ re_search(str(criteria.regex_match.value), res.stdout) # "Match"
    THEN FALSE
    ELSE IF criteria.stderr_contains.present
            /\ ~Contains(str(criteria.stderr_contains.value), res.stderr)
    THEN FALSE
    ELSE IF criteria.stderr_not_contains.present
            /\ Contains(str(criteria.stderr_not_contains.value), res.stderr)
    THEN FALSE
    ELSE IF criteria.duration_less_than.present
            /\ res.duration >= float(criteria.duration_less_than.value)
    THEN FALSE
    ELSE res.exit_code = 0

check_custom_criteria_not_contains_stdout_only(res, criteria) ==
    IF criteria.exit_code.present /\ res.exit_code # criteria.exit_code.value.n
    THEN FALSE
    ELSE IF criteria.contains.present
            /\ ~Contains(str(criteria.contains.value), res.stdout)
    THEN FALSE
    ELSE IF criteria.not_contains.present
            /\ Contains(str(criteria.not_contains.value), res.stdout)
    THEN FALSE
    ELSE IF criteria.regex_match.present
            /\ re_search(str(criteria.regex_match.value), res.stdout) # "Match"
    THEN FALSE
    ELSE IF criteria.stderr_contains.present
            /\ ~Contains(str(criteria.stderr_contains.value), res.stderr)
    THEN FALSE
    ELSE IF criteria.stderr_not_contains.present
            /\ Contains(str(criteria.stderr_not_contains.value), res.stderr)
    THEN FALSE
    ELSE IF criteria.duration_less_than.present
            /\ res.duration >= float(criteria.duration_less_than.value)
    THEN FALSE
    ELSE TRUE

\* lines 162-209: `"key" in criteria` is criteria.key.present; a search that
\* finds nothing and one that raises re.error both return False
check_custom_criteria(res, criteria) ==
    IF criteria.exit_code.present /\ res.exit_code # criteria.exit_code.value.n
    THEN FALSE
    ELSE IF criteria.contains.present
            /\ ~Contains(str(criteria.contains.value), res.stdout)
    THEN FALSE
    ELSE IF criteria.not_contains.present
            /\ (\/ Contains(str(criteria.not_contains.value), res.stdout)
                \/ Contains(str(criteria.not_contains.value), res.stderr))
    THEN FALSE
    ELSE IF criteria.regex_match.present
            /\ re_search(str(criteria.regex_match.value), res.stdout) # "Match"
    THEN FALSE
    ELSE IF criteria.stderr_contains.present
            /\ ~Contains(str(criteria.stderr_contains.value), res.stderr)
    THEN FALSE
    ELSE IF criteria.stderr_not_contains.present
            /\ Contains(str(criteria.stderr_not_contains.value), res.stderr)
    THEN FALSE
    ELSE IF criteria.duration_less_than.present
            /\ res.duration >= float(criteria.duration_less_than.value)
    THEN FALSE
    ELSE TRUE

\* a key of the map: absent, or present with one of the values vs
Absent == [ present |-> FALSE, value |-> PyInt(0) ]
Opt(vs) == {Absent} \cup { [ present |-> TRUE, value |-> v ] : v \in vs }

\* the criteria maps of the model; priority is a key the function does not know
CriteriaMaps ==
    [ exit_code : Opt({PyInt(0), PyInt(1)}),
      contains : Opt({PyStr(<< "a" >>), PyInt(1)}),
      not_contains : Opt({PyStr(<< "a" >>)}),
      regex_match : Opt({PyStr(<< "a" >>), PyStr(<< "^", "1" >>), PyStr(<< "(" >>)}),
      stderr_contains : Opt({PyStr(<< "a" >>)}),
      stderr_not_contains : Opt({PyStr(<< "1" >>)}),
      duration_less_than : Opt({PyInt(1)}),
      priority : Opt({PyInt(1)}) ]

ExecutionResults ==
    [ exit_code : {0, 1}, stdout : SeqsUpTo(Chars, MaxTextLen),
      stderr : SeqsUpTo(Chars, 1), duration : 0..(MaxDuration + 1) ]

CriteriaInit ==
    /\ call_args \in [ result : ExecutionResults, criteria : CriteriaMaps ]
    /\ returned = NoReturn
    /\ loop = HealingLoopInit(1, 1, 1)
    /\ pc = "call"
    /\ RestIdle

CheckCriteria ==
    /\ pc = "call"
    /\ pc' = "done"
    /\ returned' = [ done |-> TRUE, raised |-> "None",
                     value |-> check_custom_criteria(call_args.result,
                                                     call_args.criteria) ]
    /\ UNCHANGED << loop, gen, now, yields, last_check, marked_at, resets, call_args,
                    dispatcher >>
    /\ UNCHANGED healVars

CriteriaNext == CheckCriteria

CriteriaSpec == CriteriaInit /\ [][CriteriaNext]_vars


(***************************************************************************)
(* RedactSpec: Redactor.redact (security/redactor.py) applied to a text    *)
(* and then to its own output                                              *)
(*                                                                         *)
(* A text is the concatenation of its units; each unit is a piece of text  *)
(* that the modelled patterns match as a whole or not at all.              *)
(***************************************************************************)
Units ==
    {"password", "=", " ", "Secret123456", "private_key", "x", "[REDACTED:", "]"}

\* number of characters of a unit
UnitLen(u) ==
    CASE u = "password" -> 8
      [] u = "Secret123456" -> 12
      [] u = "private_key" -> 11
      [] u = "[REDACTED:" -> 10
      [] OTHER -> 1

RECURSIVE SumLen(_, _, _)
SumLen(t, a, b) == IF a > b THEN 0 ELSE UnitLen(t[a]) + SumLen(t, a + 1, b)

MaxOf(S) == CHOOSE x \in S : \A y \in S : y <= x

\* schema.py line 516: (password|passwd|pwd)[\s=:]+['"]?([^\s'"]{8,})['"]?
\* matched at unit i; the result is the last unit of the match (0: no match).
\* Both quantifiers are greedy; the first gives units back when the value
\* would otherwise be shorter than 8 characters.
PasswordMatchEnd(t, i) ==
    LET \* the last unit of the longest run of [\s=:] from unit a on
        SepEnd(a) ==
            CHOOSE e \in (a - 1)..Len(t) :
                /\ \A k \in a..e : t[k] \in {"=", " "}
                /\ (e = Len(t) \/ t[e + 1] \notin {"=", " "})
        \* the last unit of the longest run of [^\s'"] from unit a on
        ValueEnd(a) ==
            CHOOSE e \in (a - 1)..Len(t) :
                /\ \A k \in a..e : t[k] # " "
                /\ (e = Len(t) \/ t[e + 1] = " ")
        ok == { k \in (i + 1)..SepEnd(i + 1) : SumLen(t, k + 1, ValueEnd(k + 1)) >= 8 }
    IN  IF t[i] # "password" \/ ok = {} THEN 0
        ELSE ValueEnd(MaxOf(ok) + 1)

\* schema.py line 521: (private[_-]?key|rsa[_-]?private[_-]?key)
PrivateKeyMatchEnd(t, i) == IF t[i] = "private_key" THEN i ELSE 0

\* an additional pattern of the user: the literal x
CustomMatchEnd(t, i) == IF t[i] = "x" THEN i ELSE 0

MatchEnd(rule, t, i) ==
    CASE rule.pattern = "password" -> PasswordMatchEnd(t, i)
      [] rule.pattern = "private_key" -> PrivateKeyMatchEnd(t, i)
      [] OTHER -> CustomMatchEnd(t, i)

\* line 101: f"[REDACTED:{name}]"
Placeholder(name) == << "[REDACTED:", name, "]" >>

\* line 101: pattern.sub(placeholder, text) from unit i on: the leftmost
\* match is replaced and the search goes on behind it
RECURSIVE SubFrom(_, _, _)
SubFrom(rule, t, i) ==
    IF i > Len(t) THEN << >>
    ELSE LET e == MatchEnd(rule, t, i)
         IN  IF e # 0 THEN Placeholder(rule.name) \o SubFrom(rule, t, e + 1)
             ELSE << t[i] >> \o SubFrom(rule, t, i + 1)

\* lines 97-103: every pattern in order, each on the output of the one before
RECURSIVE RedactFrom(_, _, _)
RedactFrom(patterns, k, text) ==
    IF k > Len(patterns) THEN text
    ELSE RedactFrom(patterns, k + 1, SubFrom(patterns[k], text, 1))

redact(patterns, text) == RedactFrom(patterns, 1, text)

\* from_config, lines 56-86: the built-in patterns under their default names
\* (of the ten, the password and the private_key pattern), then the
\* additional patterns as custom_pattern_1, ...
BuiltIn ==
    << [ name |-> "password", pattern |-> "password" ],
       [ name |-> "private_key", pattern |-> "private_key" ] >>

Profiles ==
    { << BuiltIn[1] >>,
      BuiltIn,
      BuiltIn \o << [ name |-> "custom_pattern_1", pattern |-> "x" ] >> }

RedactInit ==
    /\ call_args \in [ patterns : Profiles, text : SeqsUpTo(Units, MaxRedactLen) ]
    /\ returned = NoReturn
    /\ loop = HealingLoopInit(1, 1, 1)
    /\ pc = "call"
    /\ RestIdle

\* redact(text)
RedactOnce ==
    /\ pc = "call"
    /\ pc' = "once"
    /\ returned' = [ done |-> TRUE, raised |-> "None",
                     value |-> redact(call_args.patterns, call_args.text),
                     previous |-> call_args.text ]
    /\ UNCHANGED << loop, gen, now, yields, last_check, marked_at, resets, call_args,
                    dispatcher >>
    /\ UNCHANGED healVars

\* redact(redact(text))
RedactAgain ==
    /\ pc = "once"
    /\ pc' = "twice"
    /\ returned' = [ done |-> TRUE, raised |-> "None",
                     value |-> redact(call_args.patterns, returned.value),
                     previous |-> returned.value ]
    /\ UNCHANGED << loop, gen, now, yields, last_check, marked_at, resets, call_args,
                    dispatcher >>
    /\ UNCHANGED healVars

RedactNext ==
    \/ RedactOnce
    \/ RedactAgain

RedactSpec == RedactInit /\ [][RedactNext]_vars


(***************************************************************************)
(* core/truncation.py                                                      *)
(*                                                                         *)
(* A text is the sequence of its lines, text.split("\n"): there is always  *)
(* at least one line.  A line is a run of len characters "a" or a marker   *)
(* line that truncate_text writes.                                         *)
(***************************************************************************)
ALine(n) == [ len |-> n, removed |-> 0, pos |-> "none" ]

\* len(str(n))
Digits(n) == IF n < 10 THEN 1 ELSE 2

\* lines 71, 87, 116: "[TRUNCATED: {removed_lines} lines removed from {pos}]"
Marker_one_too_many(removed_lines, pos) ==
    [ len |-> 12 + Digits(removed_lines + 1)
                 + (CASE pos = "start" -> 26 [] pos = "middle" -> 27 [] OTHER -> 24),
      removed |-> removed_lines + 1,
      pos |-> pos ]
Marker(removed_lines, pos) ==
    [ len |-> 12 + Digits(removed_lines)
                 + (CASE pos = "start" -> 26 [] pos = "middle" -> 27 [] OTHER -> 24),
      removed |-> removed_lines,
      pos |-> pos ]

EmptyText == << ALine(0) >>

\* "\n".join(lines): joining no lines gives the empty text, which is one
\* empty line
join(lines) == IF lines = << >> THEN EmptyText ELSE lines

\* the sum of len(lines[k]) + 1 for k in a..b
RECURSIVE CharsCount(_, _, _)
CharsCount(lines, a, b) ==
    IF a > b THEN 0 ELSE lines[a].len + 1 + CharsCount(lines, a + 1, b)

\* len(text)
TextLen(text) == CharsCount(text, 1, Len(text)) - 1

\* lines 21-33
estimate_tokens_ceiling(text) == (TextLen(text) + 3) \div 4
estimate_tokens(text) == TextLen(text) \div 4

\* lines 36-120; the loops stop at the first line at which the running
\* count exceeds the limit
truncate_text(text, max_tokens, position) ==
    IF estimate_tokens(text) <= max_tokens THEN text
    ELSE
    LET max_chars == max_tokens * 4
        lines == text
        n == Len(lines)
        FromEnd(limit) == { k \in 1..n : CharsCount(lines, k, n) > limit }
        FromStart(limit) == { k \in 1..n : CharsCount(lines, 1, k) > limit }
    IN  IF position = "start" THEN
            \* lines 60-73
            IF FromEnd(max_chars) = {} THEN text
            ELSE LET removed_lines == MaxOf(FromEnd(max_chars))
                 IN  << Marker(removed_lines, "start") >>
                        \o join(SubSeq(lines, removed_lines + 1, n))
        ELSE IF position = "end" THEN
            \* lines 75-88
            IF FromStart(max_chars) = {} THEN text
            ELSE LET i == (CHOOSE k \in FromStart(max_chars) :
                              \A j \in FromStart(max_chars) : k <= j) - 1
                     removed_lines == n - i
                 IN  join(SubSeq(lines, 1, n - removed_lines))
                        \o << Marker(removed_lines, "end") >>
        ELSE
            \* lines 90-118
            LET target_chars == max_chars \div 2
                start_idx == IF FromStart(target_chars) = {} THEN 0
                             ELSE (CHOOSE k \in FromStart(target_chars) :
                                     \A j \in FromStart(target_chars) : k <= j) - 1
                end_idx == IF FromEnd(target_chars) = {} THEN n
                           ELSE MaxOf(FromEnd(target_chars))
            IN  IF start_idx < end_idx
                THEN join(SubSeq(lines, 1, start_idx))
                        \o << Marker(end_idx - start_idx, "middle") >>
                        \o join(SubSeq(lines, end_idx + 1, n))
                ELSE text

\* lines 123-166; int(max_tokens * 0.7) is max_tokens * 7 \div 10 for every
\* max_tokens below 90
truncate_execution_result(res, max_tokens) ==
    LET stderr_tokens == estimate_tokens(res.stderr)
        stdout_tokens == estimate_tokens(res.stdout)
        stderr_allocation == (max_tokens * 7) \div 10
        stdout_allocation == IF stderr_tokens < stderr_allocation
                             THEN max_tokens - stderr_tokens
                             ELSE max_tokens - stderr_allocation
    IN  IF stderr_tokens + stdout_tokens <= max_tokens THEN res
        ELSE [ stderr |-> IF stderr_tokens < stderr_allocation THEN res.stderr
                          ELSE truncate_text(res.stderr, stderr_allocation, "end"),
               stdout |-> IF stdout_tokens <= stdout_allocation THEN res.stdout
                          ELSE truncate_text(res.stdout, stdout_allocation, "end") ]

\* CommitInfo.diff is None
NoDiff == << >>

\* commit.diff or ""
DiffOrEmpty(diff) == IF diff = NoDiff THEN EmptyText ELSE diff

\* lines 246-248
CommitTokens(commit) ==
    estimate_tokens(commit.message) + estimate_tokens(DiffOrEmpty(commit.diff))

\* lines 169-192
truncate_commit(commit, max_tokens) ==
    LET message_tokens == estimate_tokens(commit.message)
        diff_allocation == IF max_tokens - message_tokens > max_tokens \div 2
                           THEN max_tokens - message_tokens
                           ELSE max_tokens \div 2
    IN  IF /\ commit.diff \notin {NoDiff, EmptyText}
           /\ message_tokens + estimate_tokens(commit.diff) > max_tokens
        THEN [ commit EXCEPT !.diff = truncate_text(commit.diff, diff_allocation, "end") ]
        ELSE commit

\* lines 245-259: the loop over recent_commits from commit k on
RECURSIVE TruncateCommits(_, _, _)
TruncateCommits(commits, k, remaining_tokens) ==
    IF k > Len(commits) THEN << >>
    ELSE IF CommitTokens(commits[k]) <= remaining_tokens
         THEN << commits[k] >>
                 \o TruncateCommits(commits, k + 1,
                                    remaining_tokens - CommitTokens(commits[k]))
    ELSE IF remaining_tokens > 0
         THEN << truncate_commit(commits[k], remaining_tokens) >>
    ELSE << >>

\* HealingContext.git_context is None
NoGit == [ present |-> FALSE, uncommitted_changes |-> EmptyText, recent_commits |-> << >> ]

RECURSIVE SumCommitTokens(_, _)
SumCommitTokens(commits, k) ==
    IF k > Len(commits) THEN 0
    ELSE CommitTokens(commits[k]) + SumCommitTokens(commits, k + 1)

\* lines 215-220, 296-300
GitTokens(git_context) ==
    estimate_tokens(git_context.uncommitted_changes)
        + SumCommitTokens(git_context.recent_commits, 1)

\* lines 195-265; int(max_tokens * 0.4) is max_tokens * 4 \div 10
truncate_git_context(git_context, max_tokens) ==
    IF ~git_context.present THEN git_context
    ELSE IF GitTokens(git_context) <= max_tokens THEN git_context
    ELSE
    LET uncommitted_tokens == estimate_tokens(git_context.uncommitted_changes)
        uncommitted_allocation == (max_tokens * 4) \div 10
        commits_allocation == IF uncommitted_tokens > uncommitted_allocation
                              THEN max_tokens - uncommitted_allocation
                              ELSE max_tokens - uncommitted_tokens
    IN  [ present |-> TRUE,
          uncommitted_changes |->
              IF uncommitted_tokens > uncommitted_allocation
              THEN truncate_text(git_context.uncommitted_changes,
                                 uncommitted_allocation, "end")
              ELSE git_context.uncommitted_changes,
          recent_commits |->
              TruncateCommits(git_context.recent_commits, 1, commits_allocation) ]

\* lines 268-341; stdout + stderr has the characters of both
truncate_for_context(ctx, max_tokens) ==
    LET script_tokens == estimate_tokens(ctx.script_content)
        result_tokens == (TextLen(ctx.execution_result.stdout)
                             + TextLen(ctx.execution_result.stderr)) \div 4
        git_tokens == IF ctx.git_context.present THEN GitTokens(ctx.git_context) ELSE 0
        error_allocation == (max_tokens * 3) \div 10
        script_allocation == (max_tokens * 3) \div 10
        git_budget == max_tokens \div 4
        stdout_allocation == max_tokens - error_allocation - script_allocation - git_budget
        git_allocation == IF script_tokens > script_allocation THEN git_budget
                          ELSE git_budget + script_allocation - script_tokens
    IN  IF script_tokens + result_tokens + git_tokens <= max_tokens THEN ctx
        ELSE [ script_content |->
                   IF script_tokens > script_allocation
                   THEN truncate_text(ctx.script_content, script_allocation, "middle")
                   ELSE ctx.script_content,
               execution_result |->
                   truncate_execution_result(ctx.execution_result,
                                             error_allocation + stdout_allocation),
               git_context |-> truncate_git_context(ctx.git_context, git_allocation) ]

(***************************************************************************)
(* TruncContextSpec: truncate_for_context applied to a context and then to *)
(* its own output, with the same max_tokens                                *)
(***************************************************************************)
Text(ls) == [ k \in 1..Len(ls) |-> ALine(ls[k]) ]

Commits ==
    [ message : { Text(<< 5 >>), Text(<< 44 >>) },
      diff : { NoDiff, EmptyText, Text(<< 44, 44 >>) } ]

GitContexts ==
    { NoGit } \cup
    [ present : { TRUE },
      uncommitted_changes : { EmptyText, Text(<< 44 >>), Text(<< 44, 44 >>) },
      recent_commits : SeqsUpTo(Commits, MaxCommits) ]

HealingContexts ==
    [ script_content : { Text(<< 5 >>), Text(<< 44 >>), Text(<< 44, 44 >>),
                         Text(<< 5, 44, 5 >>) },
      execution_result : [ stdout : { EmptyText, Text(<< 5 >>), Text(<< 44, 44 >>) },
                           stderr : { EmptyText, Text(<< 44 >>), Text(<< 44, 44 >>) } ],
      git_context : GitContexts ]

ContextBudgets == {1, 4, 12, 24, 48}

TruncContextInit ==
    /\ call_args \in [ context : HealingContexts, max_tokens : ContextBudgets ]
    /\ returned = NoReturn
    /\ loop = HealingLoopInit(1, 1, 1)
    /\ pc = "call"
    /\ RestIdle

\* truncate_for_context(context, max_tokens)
TruncateOnce ==
    /\ pc = "call"
    /\ pc' = "once"
    /\ returned' = [ done |-> TRUE, raised |-> "None",
                     value |-> truncate_for_context(call_args.context,
                                                    call_args.max_tokens),
                     previous |-> call_args.context ]
    /\ UNCHANGED << loop, gen, now, yields, last_check, marked_at, resets, call_args,
                    dispatcher >>
    /\ UNCHANGED healVars

\* truncate_for_context(truncate_for_context(context, max_tokens), max_tokens)
TruncateAgain ==
    /\ pc = "once"
    /\ pc' = "twice"
    /\ returned' = [ done |-> TRUE, raised |-> "None",
                     value |-> truncate_for_context(returned.value,
                                                    call_args.max_tokens),
                     previous |-> returned.value ]
    /\ UNCHANGED << loop, gen, now, yields, last_check, marked_at, resets, call_args,
                    dispatcher >>
    /\ UNCHANGED healVars

TruncContextNext ==
    \/ TruncateOnce
    \/ TruncateAgain

TruncContextSpec == TruncContextInit /\ [][TruncContextNext]_vars

(***************************************************************************)
(* TruncTextSpec: estimate_tokens and truncate_text, each on a text of     *)
(* up to MaxTextLines lines                                                *)
(***************************************************************************)
LineLens == {0, 3, 5, 44}
Budgets == {0, 1, 4, 12, 24}
Positions == {"start", "middle", "end"}

Texts(n) == { [ k \in 1..Len(ls) |-> ALine(ls[k]) ] : ls \in SeqsUpTo(LineLens, n) \ {<< >>} }

TruncTextInit ==
    /\ call_args \in [ text : Texts(MaxTextLines), max_tokens : Budgets,
                        position : Positions ]
    /\ returned = NoReturn
    /\ loop = HealingLoopInit(1, 1, 1)
    /\ pc = "call"
    /\ RestIdle

\* estimate_tokens(text)
EstimateTokens ==
    /\ pc = "call"
    /\ pc' = "estimated"
    /\ returned' = [ done |-> TRUE, raised |-> "None",
                     value |-> estimate_tokens(call_args.text) ]
    /\ UNCHANGED << loop, gen, now, yields, last_check, marked_at, resets, call_args,
                    dispatcher >>
    /\ UNCHANGED healVars

\* truncate_text(text, max_tokens, position)
TruncateText ==
    /\ pc = "call"
    /\ pc' = "done"
    /\ returned' = [ done |-> TRUE, raised |-> "None",
                     value |-> truncate_text(call_args.text, call_args.max_tokens,
                                             call_args.position) ]
    /\ UNCHANGED << loop, gen, now, yields, last_check, marked_at, resets, call_args,
                    dispatcher >>
    /\ UNCHANGED healVars

TruncTextNext ==
    \/ EstimateTokens
    \/ TruncateText

TruncTextSpec == TruncTextInit /\ [][TruncTextNext]_vars


(***************************************************************************)
(* CompareSpec: compare_errors (core/verification.py) on two execution     *)
(* results                                                                 *)
(*                                                                         *)
(* An output is a sequence of words separated by single blanks.  A word is *)
(* a piece of text that the patterns of _normalize_error_output and        *)
(* _extract_error_patterns match as a whole or not at all; Spelling gives  *)
(* its characters, on which SequenceMatcher works.                         *)
(***************************************************************************)
Timestamps == {"1706623696", "1706623700"}
Paths == {"/usr/a", "/opt/bb"}
Pids == {"pid 7", "pid 42"}
Addresses == {"0x1f", "0x2a"}
Ports == {":80", ":8080"}
Variables == Timestamps \cup Paths \cup Pids \cup Addresses \cup Ports
Words == {"Error", "boom"}

Spelling ==
      "Error" :> << "E", "r", "r", "o", "r" >>
      @@ "boom" :> << "b", "o", "o", "m" >>
      @@ "ok" :> << "o", "k" >>
      @@ ":80" :> << ":", "8", "0" >>
      @@ ":8080" :> << ":", "8", "0", "8", "0" >>
      @@ "0x1f" :> << "0", "x", "1", "f" >>
      @@ "0x2a" :> << "0", "x", "2", "a" >>
      @@ "pid 7" :> << "p", "i", "d", " ", "7" >>
      @@ "pid 42" :> << "p", "i", "d", " ", "4", "2" >>
      @@ "/usr/a" :> << "/", "u", "s", "r", "/", "a" >>
      @@ "/opt/bb" :> << "/", "o", "p", "t", "/", "b", "b" >>
      @@ "1706623696" :> << "1", "7", "0", "6", "6", "2", "3", "6", "9", "6" >>
      @@ "1706623700" :> << "1", "7", "0", "6", "6", "2", "3", "7", "0", "0" >>
      @@ "[TIMESTAMP]" :> << "[", "T", "I", "M", "E", "S", "T", "A", "M", "P", "]" >>
      @@ "[PATH]" :> << "[", "P", "A", "T", "H", "]" >>
      @@ "pid=[PID]" :> << "p", "i", "d", "=", "[", "P", "I", "D", "]" >>
      @@ "[ADDR]" :> << "[", "A", "D", "D", "R", "]" >>
      @@ ":[PORT]" :> << ":", "[", "P", "O", "R", "T", "]" >>

\* lines 233-257: the substitutions, on one word
NormalizeWord_paths_kept(w) ==
    CASE w \in Timestamps -> "[TIMESTAMP]"
      [] w \in Pids -> "pid=[PID]"
      [] w \in Addresses -> "[ADDR]"
      [] w \in Ports -> ":[PORT]"
      [] OTHER -> w
NormalizeWord(w) ==
    CASE w \in Timestamps -> "[TIMESTAMP]"      \* line 241: \b\d{10,13}\b
      [] w \in Paths -> "[PATH]"                \* line 245: /(?:home|Users|usr|opt)/[^\s:,]+
      [] w \in Pids -> "pid=[PID]"              \* line 250: \bpid[:\s=]+\d+
      [] w \in Addresses -> "[ADDR]"            \* line 254: 0x[0-9a-fA-F]+
      [] w \in Ports -> ":[PORT]"               \* line 257: :(\d{2,5})\b
      [] OTHER -> w

\* the characters of the words from word k on, one blank between two words
RECURSIVE Spell(_, _)
Spell(output, k) ==
    IF k > Len(output) THEN << >>
    ELSE Spelling[output[k]]
            \o (IF k < Len(output) THEN << " " >> ELSE << >>)
            \o Spell(output, k + 1)

\* lines 212-263: the characters of the normalized output
_normalize_error_output(output) ==
    Spell([ k \in 1..Len(output) |-> NormalizeWord(output[k]) ], 1)

\* lines 266-321: of the words here only Error is an error pattern
_extract_error_patterns(output) ==
    { output[k] : k \in { j \in 1..Len(output) : output[j] = "Error" } }

\* the length of the longest common run of a from i and b from j, within
\* a[..ahi] and b[..bhi]
RECURSIVE CommonRun(_, _, _, _, _, _)
CommonRun(a, b, i, j, ahi, bhi) ==
    IF i > ahi \/ j > bhi \/ a[i] # b[j] THEN 0
    ELSE 1 + CommonRun(a, b, i + 1, j + 1, ahi, bhi)

\* difflib.SequenceMatcher.get_matching_blocks: the number of characters in
\* the matching blocks of a[alo..ahi] and b[blo..bhi].  The longest block is
\* taken, of several the one that starts first in a and then first in b,
\* and the pieces to its left and to its right are matched in the same way.
RECURSIVE MatchedChars(_, _, _, _, _, _)
MatchedChars(a, b, alo, ahi, blo, bhi) ==
    LET size(i, j) == CommonRun(a, b, i, j, ahi, bhi)
        starts == { ij \in (alo..ahi) \X (blo..bhi) : size(ij[1], ij[2]) > 0 }
    IN  IF starts = {} THEN 0
        ELSE LET k == MaxOf({ size(ij[1], ij[2]) : ij \in starts })
                 longest == { ij \in starts : size(ij[1], ij[2]) = k }
                 i == CHOOSE x \in { ij[1] : ij \in longest } :
                          \A ij \in longest : x <= ij[1]
                 j == CHOOSE y \in { ij[2] : ij \in { l \in longest : l[1] = i } } :
                          \A ij \in { l \in longest : l[1] = i } : y <= ij[2]
             IN  k + MatchedChars(a, b, alo, i - 1, blo, j - 1)
                   + MatchedChars(a, b, i + k, ahi, j + k, bhi)

\* SequenceMatcher(None, a, b).ratio(): 2.0 * matches / (len(a) + len(b)), and
\* 1.0 for two empty strings; the fraction num / den
ratio(a, b) ==
    IF Len(a) + Len(b) = 0 THEN [ num |-> 1, den |-> 1 ]
    ELSE [ num |-> 2 * MatchedChars(a, b, 1, Len(a), 1, Len(b)),
           den |-> Len(a) + Len(b) ]

\* p > n / 10 for a fraction p
Exceeds(p, n) == 10 * p.num > n * p.den

\* line 97: stderr_similarity * 0.7 + stdout_similarity * 0.3
Weighted_stdout_first(stderr_similarity, stdout_similarity) ==
    [ num |-> 3 * stderr_similarity.num * stdout_similarity.den
                 + 7 * stdout_similarity.num * stderr_similarity.den,
      den |-> 10 * stderr_similarity.den * stdout_similarity.den ]
Weighted(stderr_similarity, stdout_similarity) ==
    [ num |-> 7 * stderr_similarity.num * stdout_similarity.den
                 + 3 * stdout_similarity.num * stderr_similarity.den,
      den |-> 10 * stderr_similarity.den * stdout_similarity.den ]

\* bool(v) for the values is_same_error takes
Truthy(v) == v = "True"

\* lines 49-134.  is_same_error is the value of the expression of lines
\* 121-128: x and y is x when x is falsy, so that the empty set of patterns
\* comes out as it is
compare_errors_without_patterns(previous, current) ==
    LET exit_code_same == previous.exit_code = current.exit_code
        stderr_similarity == ratio(_normalize_error_output(previous.stderr),
                                   _normalize_error_output(current.stderr))
        stdout_similarity == ratio(_normalize_error_output(previous.stdout),
                                   _normalize_error_output(current.stdout))
        overall_similarity == Weighted(stderr_similarity, stdout_similarity)
        prev_error_patterns == _extract_error_patterns(previous.stderr)
        curr_error_patterns == _extract_error_patterns(current.stderr)
        missing_patterns == prev_error_patterns \ curr_error_patterns
        new_patterns == curr_error_patterns \ prev_error_patterns
    IN  [ is_same_error |->
              IF exit_code_same /\ Exceeds(stderr_similarity, 8) THEN "True"
              ELSE IF missing_patterns # {} THEN "False"
              ELSE IF new_patterns # {} THEN "False"
              ELSE IF Exceeds(overall_similarity, 6) THEN "True" ELSE "False",
          similarity_score |-> overall_similarity,
          key_differences |->
              (IF exit_code_same THEN << >> ELSE << "Exit code changed" >>)
              \o (IF missing_patterns = {} THEN << >>
                  ELSE << "Error patterns no longer present" >>)
              \o (IF new_patterns = {} THEN << >>
                  ELSE << "New error patterns appeared" >>) ]
compare_errors(previous, current) ==
    LET exit_code_same == previous.exit_code = current.exit_code
        stderr_similarity == ratio(_normalize_error_output(previous.stderr),
                                   _normalize_error_output(current.stderr))
        stdout_similarity == ratio(_normalize_error_output(previous.stdout),
                                   _normalize_error_output(current.stdout))
        overall_similarity == Weighted(stderr_similarity, stdout_similarity)
        prev_error_patterns == _extract_error_patterns(previous.stderr)
        curr_error_patterns == _extract_error_patterns(current.stderr)
        missing_patterns == prev_error_patterns \ curr_error_patterns
        new_patterns == curr_error_patterns \ prev_error_patterns
    IN  [ is_same_error |->
              IF exit_code_same /\ Exceeds(stderr_similarity, 8) THEN "True"
              ELSE IF missing_patterns # {} THEN "False"
              ELSE IF new_patterns # {} THEN "False"
              ELSE IF prev_error_patterns = {} THEN "set()"
              ELSE IF Exceeds(overall_similarity, 6) THEN "True" ELSE "False",
          similarity_score |-> overall_similarity,
          key_differences |->
              (IF exit_code_same THEN << >> ELSE << "Exit code changed" >>)
              \o (IF missing_patterns = {} THEN << >>
                  ELSE << "Error patterns no longer present" >>)
              \o (IF new_patterns = {} THEN << >>
                  ELSE << "New error patterns appeared" >>) ]

\* stderr: nothing, a word, or a word and something that varies between runs
StderrOutputs ==
    { << >> } \cup { << w >> : w \in Words }
              \cup { << w, v >> : w \in Words, v \in Variables }

StdoutOutputs == { << >>, << "ok" >> }

ComparedResults ==
    [ exit_code : 1..MaxExitCode, stdout : StdoutOutputs, stderr : StderrOutputs ]

CompareInit ==
    /\ call_args \in [ previous : ComparedResults, current : ComparedResults ]
    /\ returned = NoReturn
    /\ loop = HealingLoopInit(1, 1, 1)
    /\ pc = "call"
    /\ RestIdle

\* compare_errors(previous, current)
CompareErrors ==
    /\ pc = "call"
    /\ pc' = "done"
    /\ returned' = [ done |-> TRUE, raised |-> "None",
                     value |-> compare_errors(call_args.previous, call_args.current) ]
    /\ UNCHANGED << loop, gen, now, yields, last_check, marked_at, resets, call_args,
                    dispatcher >>
    /\ UNCHANGED healVars

CompareNext == CompareErrors

CompareSpec == CompareInit /\ [][CompareNext]_vars


(***************************************************************************)
(* RetrySpec: ClaudeCodeClient.request_fix_with_retry (claude/client.py    *)
(* lines 316-348)                                                          *)
(***************************************************************************)
\* what request_fix returns: parse_claude_output's results and the failure
\* responses of client.py lines 158-184
FixResponses ==
    { [ success |-> TRUE, error_message |-> "None" ],
      [ success |-> FALSE, error_message |-> "No changes were made by Claude Code" ],
      [ success |-> FALSE, error_message |-> "Claude Code timed out" ],
      [ success |-> FALSE, error_message |-> "OS error executing Claude Code" ] }

\* lines 333-334: the limit in force
EffectiveMaxAttempts ==
    IF call_args.max_attempts_given THEN call_args.max_attempts
    ELSE call_args.config_max_attempts

\* max_attempts is any int or None; config.healing.max_attempts is at least 1
RetryInit ==
    /\ call_args \in [ max_attempts_given : BOOLEAN,
                        max_attempts : -1..MaxRetryArg,
                        config_max_attempts : 1..MaxRetryArg ]
    /\ ~call_args.max_attempts_given => call_args.max_attempts = 0
    /\ returned = NoReturn
    /\ loop = HealingLoopInit(1, 1, 1)
    /\ pc = "call"
    /\ RestIdle

RetryFrame ==
    /\ UNCHANGED << loop, gen, now, yields, last_check, marked_at, resets, call_args,
                    dispatcher >>
    /\ UNCHANGED << git_ops, success_criteria, original_branch, stashed_changes,
                    feature_branch, initial_result, current_execution, context,
                    attempts, verification, has_changes, result, exc, sent, runs,
                    warnings >>

\* lines 333-336: the loop is entered, or range(1, max_attempts + 1) is empty
\* and line 348 reads response, which was never bound
RetryEnter ==
    /\ pc = "call"
    /\ IF EffectiveMaxAttempts >= 1
       THEN pc' = "request" /\ UNCHANGED returned
       ELSE /\ pc' = "done"
            /\ returned' = [ done |-> TRUE, raised |-> "UnboundLocalError" ]
    /\ UNCHANGED << calls, claude_response >>
    /\ RetryFrame

\* lines 336-341: one turn of the loop; attempt is the number of this request
RequestFixTurn ==
    /\ pc = "request"
    /\ LET attempt == Len(calls) + 1
       IN  \/ \E response \in FixResponses :
                /\ calls' = Append(calls, Call("request_fix", response))
                /\ claude_response' = response
                /\ IF response.success \/ attempt = EffectiveMaxAttempts
                   THEN /\ pc' = "done"
                        /\ returned' = [ done |-> TRUE, raised |-> "None",
                                         value |-> << response, attempt >> ]
                   ELSE UNCHANGED << pc, returned >>
           \/ \* request_fix raises (lines 109-115)
              /\ calls' = Append(calls, Call("request_fix", [ raised |-> "RuntimeError" ]))
              /\ pc' = "done"
              /\ returned' = [ done |-> TRUE, raised |-> "RuntimeError" ]
              /\ UNCHANGED claude_response
    /\ RetryFrame

RetryNext ==
    \/ RetryEnter
    \/ RequestFixTurn

RetrySpec == RetryInit /\ [][RetryNext]_vars


(***************************************************************************)
(* DispatchSpec: notifications/dispatcher.py, and the step of              *)
(* Healer._finalize_healing that uses it (core/healer.py lines 594-610)    *)
(***************************************************************************)
DefaultRateLimitWindow == 60
DefaultRateLimitMax == 10

\* lines 38-58: the channels are those of the configuration that could be
\* initialised
NotificationDispatcher(channels, rate_limit_window, rate_limit_max) ==
    [ channels |-> channels, rate_limit_window |-> rate_limit_window,
      rate_limit_max |-> rate_limit_max, _notification_times |-> << >> ]

\* lines 198-204: the notification times still inside the window
RecentTimes_window_closed(d, current_time) ==
    SelectSeq(d._notification_times,
              LAMBDA t : t >= current_time - d.rate_limit_window)
RecentTimes(d, current_time) ==
    SelectSeq(d._notification_times,
              LAMBDA t : t > current_time - d.rate_limit_window)

\* lines 192-207
_check_rate_limit(d, current_time) ==
    Len(RecentTimes(d, current_time)) < d.rate_limit_max

\* what channel.send does: it returns True or False, or it raises
SendOutcomes == {"True", "False", "raise"}

\* lines 159-163, 173-179
NotificationResult(channel, outcome) ==
    [ success |-> outcome = "True",
      channel_name |-> channel,
      error_message |-> CASE outcome = "True" -> "None"
                          [] outcome = "False" -> "Failed to send to channel"
                          [] OTHER -> "str(e)" ]

RateLimited ==
    [ success |-> FALSE, channel_name |-> "dispatcher",
      error_message |-> "Rate limit exceeded" ]

\* lines 110-190: dispatch entered at time t and left at time t_end, when
\* the sends have the given outcomes.  sends are the channels send was
\* called on, in order.
dispatch_stops_at_failure(d, outcomes, t, t_end) ==
    LET stop == { k \in 1..Len(d.channels) : outcomes[k] # "True" }
        n == IF stop = {} THEN Len(d.channels)
             ELSE CHOOSE k \in stop : \A j \in stop : k <= j
    IN
    IF ~_check_rate_limit(d, t)
    THEN [ results |-> << RateLimited >>, sends |-> << >>,
           times |-> RecentTimes(d, t) ]
    ELSE IF d.channels = << >>
    THEN [ results |-> << >>, sends |-> << >>, times |-> RecentTimes(d, t) ]
    ELSE [ results |-> [ k \in 1..n |-> NotificationResult(d.channels[k], outcomes[k]) ],
           sends |-> SubSeq(d.channels, 1, n),
           times |-> Append(RecentTimes(d, t), t_end) ]
dispatch(d, outcomes, t, t_end) ==
    IF ~_check_rate_limit(d, t)
    THEN [ results |-> << RateLimited >>, sends |-> << >>,
           times |-> RecentTimes(d, t) ]
    ELSE IF d.channels = << >>
    THEN [ results |-> << >>, sends |-> << >>, times |-> RecentTimes(d, t) ]
    ELSE [ results |-> [ k \in 1..Len(d.channels) |->
                            NotificationResult(d.channels[k], outcomes[k]) ],
           sends |-> d.channels,
           times |-> Append(RecentTimes(d, t), t_end) ]

\* one dispatch call in the log
DispatchCall(t, t_end, d, channels) ==
    [ op |-> "dispatch", at |-> t, until |-> t_end, sends |-> d.sends,
      results |-> d.results, channels |-> channels ]

ChannelLists == { << >>, << "slack" >>, << "slack", "discord" >> }

\* heal is about to notify (pc = "notify"), or a caller holds a dispatcher
\* it has constructed (pc = "idle")
DispatchInit ==
    /\ call_args \in [ notifications : BOOLEAN, channels : ChannelLists,
                        rate_limit_window : 1..MaxRateLimit,
                        rate_limit_max : 0..MaxRateLimit ]
    /\ \/ /\ pc = "notify"
          /\ dispatcher = NoDispatcher
          /\ call_args.rate_limit_window = 1
          /\ call_args.rate_limit_max = 0
       \/ /\ pc = "idle"
          /\ call_args.notifications
          /\ dispatcher = NotificationDispatcher(call_args.channels,
                                                 call_args.rate_limit_window,
                                                 call_args.rate_limit_max)
    /\ result \in { NoHealingResult, [ NoHealingResult EXCEPT !.success = TRUE ] }
    /\ pc = "idle" => result = NoHealingResult
    /\ returned = NoReturn
    /\ loop = HealingLoopInit(1, 1, 1)
    /\ gen = "none" /\ now = T0 /\ yields = << >> /\ last_check = NoCheck
    /\ marked_at = 0 /\ git_ops = FALSE /\ success_criteria = FALSE /\ resets = 0
    /\ original_branch = "None" /\ stashed_changes = FALSE /\ feature_branch = "None"
    /\ initial_result = NoResult /\ current_execution = NoResult
    /\ context = NoContext /\ attempts = << >> /\ claude_response = NoResponse
    /\ verification = NoVerification /\ has_changes = FALSE /\ exc = "None"
    /\ calls = << >> /\ sent = << >> /\ runs = 0 /\ warnings = {}

DispatchFrame ==
    UNCHANGED << loop, gen, yields, last_check, marked_at, git_ops,
                 success_criteria, original_branch, stashed_changes,
                 feature_branch, initial_result, current_execution, context,
                 attempts, claude_response, verification, has_changes, result,
                 exc, sent, runs, resets, call_args >>

\* dispatcher.dispatch(result, script_path) by the caller that keeps the
\* dispatcher; the sends take dt seconds
Dispatch ==
    /\ pc = "idle"
    /\ Len(calls) < MaxDispatches
    /\ \E outcomes \in [ 1..Len(dispatcher.channels) -> SendOutcomes ],
          dt \in { x \in Durations : now + x <= MaxClock } :
          LET d == dispatch(dispatcher, outcomes, now, now + dt)
          IN  /\ returned' = [ done |-> TRUE, raised |-> "None", value |-> d.results ]
              /\ dispatcher' = [ dispatcher EXCEPT !._notification_times = d.times ]
              /\ calls' = Append(calls, DispatchCall(now, now + dt, d, dispatcher.channels))
              /\ now' = now + dt
    /\ UNCHANGED << pc, warnings >>
    /\ DispatchFrame

\* time passes between two dispatch calls
Tick ==
    /\ pc = "idle"
    /\ now < MaxClock
    /\ now' = now + 1
    /\ UNCHANGED << pc, warnings, calls, returned, dispatcher >>
    /\ DispatchFrame

\* healer.py lines 594-610: a dispatcher of its own for this result, inside
\* try/except; then return result
HealNotify ==
    /\ pc = "notify"
    /\ pc' = "returned"
    /\ IF ~call_args.notifications
       THEN UNCHANGED << now, calls, returned, dispatcher, warnings >>
       ELSE \/ \* the import or the constructor raises
               /\ warnings' = warnings \cup {"Failed to send notifications"}
               /\ UNCHANGED << now, calls, returned, dispatcher >>
            \/ \E outcomes \in [ 1..Len(call_args.channels) -> SendOutcomes ] :
                 LET new == NotificationDispatcher(call_args.channels,
                                DefaultRateLimitWindow, DefaultRateLimitMax)
                     d == dispatch(new, outcomes, now, now)
                 IN  /\ returned' = [ done |-> TRUE, raised |-> "None",
                                      value |-> d.results ]
                     /\ dispatcher' = [ new EXCEPT !._notification_times = d.times ]
                     /\ calls' = Append(calls, DispatchCall(now, now, d, new.channels))
                     /\ UNCHANGED << now, warnings >>
    /\ DispatchFrame

DispatchNext ==
    \/ Dispatch
    \/ Tick
    \/ HealNotify

DispatchSpec == DispatchInit /\ [][DispatchNext]_vars


(***************************************************************************)
(* Properties of the git cleanup of a heal session, checked under Spec     *)
(***************************************************************************)
CallsOf(op) == { k \in 1..Len(calls) : calls[k].op = op }

\* C35: in a heal session pop_stash is called at most once, and only when
\* the session stashed changes, on every path, one that raises included.
C35_StashPoppedAtMostOnce ==
    /\ Cardinality(CallsOf("pop_stash")) <= 1
    /\ CallsOf("pop_stash") # {} => stashed_changes

\* C36: in a heal session the working branch is pushed at most once, whether
\* the session succeeds or fails.
C36_PushedAtMostOnce == Cardinality(CallsOf("push")) <= 1

(***************************************************************************)
(* Properties of the verification outcome of a heal session, checked under *)
(* Spec                                                                    *)
(***************************************************************************)
\* the success rule of verification for this script
SuccessRule(r) == IF success_criteria THEN r.criteria_ok ELSE r.exit_code = 0

\* C37: a result heal returns with success = true has a final execution that
\* meets the script's success criteria, or has exit code 0 when the script
\* has none, whether an attempt or the initial run gave the success.
C37_SuccessMeetsTheSuccessRule ==
    (pc = "returned" /\ result.success) => SuccessRule(result.final_execution)

\* C38: the verification of an attempt has status timeout exactly when its
\* run of the script was killed for exceeding the timeout.
C38_TimeoutIffKilledForTimeout ==
    verification # NoVerification =>
        (verification.status = "timeout"
            <=> verification.execution_result.how = "timeout")

\* C39: the verification of attempt n compares its run with the run just
\* before it (the initial run for n = 1, the verification run of attempt
\* n - 1 otherwise), and the final_execution of a returned result is the
\* last run of the session.
C39_ComparedWithThePrecedingRun ==
    /\ verification # NoVerification =>
          /\ verification.execution_result.ts = runs
          /\ verification.previous_ts = runs - 1
          /\ runs = Len(attempts) + 1
    /\ pc = "returned" =>
          /\ result.final_execution.ts = runs
          /\ \A n \in 1..Len(result.attempts) : result.attempts[n].ts = n + 1

C39_Witness ==
    /\ pc = "returned"
    /\ Len(result.attempts) = 2
    /\ runs = 3
    /\ result.final_execution.ts = 3

\* heal is in or past its finalization phase
Finalizing == pc \in {"finalize", "fin_push", "fin_pr", "fin_checkout", "fin_pop",
                      "notify", "returned"}

AgentAvailable == \E k \in 1..Len(calls) : calls[k] = Call("is_available", "True")

\* C40: when the initial run failed and the agent is available, heal reaches
\* finalization only after an attempt (a request to the agent, then a
\* verification run), and no result ever carries the message "No healing
\* attempts were made".
C40_AtLeastOneAttempt ==
    /\ (AgentAvailable /\ Finalizing) =>
          /\ attempts # << >>
          /\ sent # << >>
          /\ runs >= 2
          /\ \E i, j \in 1..Len(calls) :
                /\ i < j
                /\ calls[i] = Call("request_fix", "ok")
                /\ calls[j] = Call("run_script", "ok")
    /\ \A m \in 1..Len(result.error_message) :
          result.error_message[m].kind # "No healing attempts were made"

C40_Witness ==
    /\ pc = "returned"
    /\ AgentAvailable
    /\ ~result.success
    /\ Len(result.attempts) = 1
    /\ loop.max_attempts = 1
    /\ loop.total_timeout = 1

(***************************************************************************)
(* Properties of request_fix_with_retry, checked under RetrySpec           *)
(***************************************************************************)
RequestFixRaised == returned.raised = "RuntimeError"

\* C33: whatever max_attempts the call is given, it makes at most
\* max_attempts requests, and when no request raised it returns the response
\* of its last request with the number of requests made; that response is
\* the first successful one, or the last of max_attempts failing ones.
C33_ReturnsLastResponseAndCount ==
    /\ Len(calls) <= IF EffectiveMaxAttempts > 0 THEN EffectiveMaxAttempts ELSE 0
    /\ (pc = "done" /\ ~RequestFixRaised) =>
          /\ returned.raised = "None"
          /\ calls # << >>
          /\ returned.value = << Last(calls).outcome, Len(calls) >>
          /\ \A k \in 1..(Len(calls) - 1) : ~calls[k].outcome.success
          /\ ~Last(calls).outcome.success => Len(calls) = EffectiveMaxAttempts

(***************************************************************************)
(* Properties of the notification dispatcher, checked under DispatchSpec   *)
(***************************************************************************)
\* the dispatch calls that sent to channels
Delivered == { k \in 1..Len(calls) : calls[k].sends # << >> }

\* the delivering calls before call k that ended less than rate_limit_window
\* seconds before call k began
RecentBefore(k) ==
    { i \in Delivered : i < k /\ calls[i].until > calls[k].at - dispatcher.rate_limit_window }

OverLimit(k) == Cardinality(RecentBefore(k)) >= dispatcher.rate_limit_max

\* C31: a dispatch that is not over the rate limit calls send on every
\* configured channel in channel order, whatever the earlier sends returned
\* or raised, returns one result per channel in that order and raises
\* nothing; the notification step of heal leaves the HealingResult as it is
\* and goes on to return it.
C31_EveryChannelIsTried ==
    /\ [](\A k \in 1..Len(calls) :
            ~OverLimit(k) =>
               /\ calls[k].sends = calls[k].channels
               /\ Len(calls[k].results) = Len(calls[k].channels)
               /\ \A c \in 1..Len(calls[k].channels) :
                     calls[k].results[c].channel_name = calls[k].channels[c]
               /\ returned.raised = "None")
    /\ [][pc = "notify" => pc' = "returned" /\ result' = result]_vars

C31_Witness ==
    /\ pc = "returned"
    /\ result.success
    /\ Len(calls) = 1
    /\ calls[1].sends = << "slack", "discord" >>
    /\ calls[1].results[1].error_message = "str(e)"
    /\ calls[1].results[2].success
    /\ returned.value = calls[1].results

\* C32: of the dispatches on one dispatcher, more than rate_limit_max never
\* deliver within rate_limit_window seconds; a dispatch over the limit sends
\* to no channel, returns the one failed result "Rate limit exceeded" and is
\* not recorded; a dispatch not over the limit (the earlier ones have left
\* the window) delivers again.
C32_RateLimit ==
    /\ \A i, j \in Delivered :
          (i <= j /\ Cardinality({ k \in Delivered : i <= k /\ k <= j })
                        > dispatcher.rate_limit_max)
             => calls[j].at - calls[i].until >= dispatcher.rate_limit_window
    /\ \A k \in 1..Len(calls) :
          IF OverLimit(k)
          THEN calls[k].sends = << >> /\ calls[k].results = << RateLimited >>
          ELSE calls[k].sends = calls[k].channels
    /\ Len(dispatcher._notification_times) <= Cardinality(Delivered)

C32_Witness ==
    /\ Len(calls) = 3
    /\ dispatcher.rate_limit_max = 1
    /\ calls[1].sends # << >>
    /\ calls[2].results = << RateLimited >>
    /\ calls[3].sends # << >>
    /\ Len(dispatcher._notification_times) = 1


(***************************************************************************)
(* Properties of the retry controller, checked under LoopSpec              *)
(***************************************************************************)
\* C1: the generator yields 1, 2, 3, ... without gaps; once mark_success()
\* was called during attempt k nothing is yielded after k (with or without
\* a break); and a generator that ran to its end without the total timeout
\* having elapsed at its last check yielded exactly min(max_attempts, k)
\* values (max_attempts when mark_success() was never called).
C1_YieldsMinOfMaxAndSuccess ==
    /\ \A i \in 1..Len(yields) : yields[i] = i
    /\ (marked_at # 0 => Len(yields) = marked_at)
    /\ (gen = "finished" /\ last_check.elapsed < loop.total_timeout
          => Len(yields) = IF marked_at = 0 THEN loop.max_attempts
                           ELSE Min(loop.max_attempts, marked_at))

\* the scenario of the spec: max_attempts = 3, success marked in attempt 2,
\* no break, the generator ends having yielded [1, 2]
C1_Witness ==
    /\ gen = "finished"
    /\ loop.max_attempts = 3
    /\ marked_at = 2
    /\ yields = << 1, 2 >>
    /\ last_check.elapsed < loop.total_timeout

\* C2: a value is yielded only if the check made right before it read
\* current_attempt < max_attempts, elapsed < total_timeout and a lowered
\* success flag; no attempt starts at or after total_timeout.
C2_YieldOnlyAfterPassingCheck ==
    [][ Len(yields') > Len(yields)
          => /\ last_check'.current_attempt < loop'.max_attempts
             /\ last_check'.elapsed < loop'.total_timeout
             /\ ~last_check'.success
             /\ (now' - loop'._start_time) < loop'.total_timeout ]_vars

\* the generator refused to start an attempt only because the time was up
C2_Witness ==
    /\ gen = "finished"
    /\ Len(yields) >= 1
    /\ last_check.current_attempt < loop.max_attempts
    /\ ~last_check.success
    /\ last_check.elapsed >= loop.total_timeout

\* C17: reset() leaves the loop in the state of a freshly constructed one
\* with the same arguments, whichever way the earlier iteration ended; the
\* first next() of the following iteration starts the clock anew, reads
\* attempt 0 and a lowered flag and yields 1; the values yielded are 1, 2, ...
\* and an iteration that ends without success and without timeout has
\* yielded max_attempts values.
C17_ResetStep ==
    /\ (resets' # resets
          => /\ loop' = HealingLoopInit(loop.max_attempts, loop.timeout_per_attempt,
                                        loop.total_timeout)
             /\ gen' = "none")
    /\ (gen = "created" /\ gen' # "created"
          => /\ loop'._start_time = now
             /\ last_check' = [ current_attempt |-> 0, elapsed |-> 0,
                                success |-> FALSE, ok |-> TRUE ]
             /\ yields' = << 1 >>
             /\ loop'._current_attempt = 1
             /\ ~loop'._success)

C17_FullBudget ==
    /\ \A i \in 1..Len(yields) : yields[i] = i
    /\ Len(yields) <= loop.max_attempts
    /\ (gen = "finished" /\ marked_at = 0 /\ last_check.elapsed < loop.total_timeout
          => Len(yields) = loop.max_attempts)
    /\ (gen = "none" => loop = HealingLoopInit(loop.max_attempts,
                                               loop.timeout_per_attempt,
                                               loop.total_timeout))

C17_ResetGivesFreshLoop == []C17_FullBudget /\ [][C17_ResetStep]_vars

\* after a reset the loop, started later than the first time, went through
\* all of its three attempts
C17_Witness ==
    /\ resets = 1
    /\ gen = "finished"
    /\ loop.max_attempts = 3
    /\ yields = << 1, 2, 3 >>
    /\ loop._start_time > T0
    /\ last_check.elapsed < loop.total_timeout


(***************************************************************************)
(* Properties of a heal session, checked under Spec                        *)
(***************************************************************************)
Called(op) == \E i \in DOMAIN calls : calls[i].op = op
CalledWith(op, outcome) == \E i \in DOMAIN calls : calls[i] = Call(op, outcome)
HasMessage(kind) ==
    \E i \in DOMAIN result.error_message : result.error_message[i].kind = kind

\* C3: the recorded attempts never outnumber max_attempts, they are numbered
\* 1..n, and a loop that ended without a success and without the total
\* timeout having elapsed made exactly max_attempts attempts.
C3_AttemptsBoundedAndConsecutive ==
    /\ Len(attempts) <= loop.max_attempts
    /\ \A i \in DOMAIN attempts : attempts[i].attempt_number = i
    /\ Len(result.attempts) <= loop.max_attempts
    /\ (gen = "finished" /\ last_check.elapsed < loop.total_timeout
          => Len(attempts) = loop.max_attempts)

\* heal returned a failure after using all of its max_attempts = 2 attempts
C3_Witness ==
    /\ pc = "returned"
    /\ ~result.success
    /\ loop.max_attempts = 2
    /\ Len(result.attempts) = 2
    /\ last_check.elapsed < loop.total_timeout

\* C4: an attempt that verifies as success is the last recorded attempt, the
\* success flag of the loop is raised, no agent request and no script run
\* follows it, and the result reports success; a result with at least one
\* attempt reports success exactly when its last attempt's status is success.
C4_SuccessEndsSession ==
    /\ \A i \in DOMAIN attempts :
          attempts[i].status = "success"
             => /\ i = Len(attempts)
                /\ loop._success
                /\ Len(sent) = i
                /\ runs = i + 1
                /\ pc \notin {"for", "request_fix", "verify", "update_context"}
                /\ (pc \in {"fin_push", "fin_pr", "fin_checkout", "fin_pop",
                            "notify", "returned"} => result.success)
    /\ (pc = "returned" /\ result.attempts # << >>
          => (result.success <=> Last(result.attempts).status = "success"))

\* heal returned success after a failed first and a successful second attempt
C4_Witness ==
    /\ pc = "returned"
    /\ result.success
    /\ Len(result.attempts) = 2
    /\ result.attempts[1].status = "same_error"
    /\ result.attempts[2].status = "success"

\* C5: the status of an attempt is timeout for exit code -1 whatever the
\* criteria and the comparison say; otherwise with custom criteria it is
\* success when they pass and same_error / different_error by is_same_error
\* when they fail, whatever the exit code; otherwise it is success exactly
\* for exit code 0 and same_error / different_error by is_same_error.
SameOrDifferent(v) == IF v.is_same_error THEN "same_error" ELSE "different_error"

C5_VerificationStatusTable ==
    LET v == verification
        code == v.execution_result.exit_code
    IN  v.status # "none" =>
          /\ (code = -1 => v.status = "timeout")
          /\ (code # -1 /\ v.custom_criteria_passed = "True" => v.status = "success")
          /\ (code # -1 /\ v.custom_criteria_passed = "False"
                => v.status = SameOrDifferent(v))
          /\ (code # -1 /\ v.custom_criteria_passed = "None"
                => /\ (v.status = "success" <=> code = 0)
                   /\ (code # 0 => v.status = SameOrDifferent(v)))
          /\ (v.custom_criteria_passed = "None" <=> ~success_criteria)

\* a timed-out run that meets the custom criteria is classified as timeout
C5_Witness ==
    /\ verification.status = "timeout"
    /\ verification.custom_criteria_passed = "True"
    /\ verification.execution_result.how = "timeout"

\* C6: every context handed to request_fix came out of redact_context, with
\* one redacted PreviousAttempt per earlier attempt.
C6_EveryRequestRedacted ==
    /\ \A i \in DOMAIN sent :
          /\ sent[i].redacted
          /\ Len(sent[i].previous_attempts) = i - 1
          /\ \A j \in DOMAIN sent[i].previous_attempts :
                /\ sent[i].previous_attempts[j].redacted
                /\ sent[i].previous_attempts[j].attempt_number = j
    /\ (pc \in {"for", "request_fix"} => context.redacted)

\* a second request was made after a different_error attempt
C6_Witness ==
    /\ Len(sent) = 2
    /\ Len(sent[2].previous_attempts) = 1
    /\ attempts[1].status = "different_error"

\* C7: in a git repository the finally clause of _finalize_healing has tried
\* the checkout of the original branch (if recorded) and then the stash pop
\* (if stashed) as its last git calls, also after a failed or raising push or
\* PR creation; a failed cleanup step ends up in error_message (as a warning
\* when a message was already there) and raises nothing.
CleanupOps ==
    (IF original_branch # "None" THEN << "checkout_original" >> ELSE << >>)
      \o (IF stashed_changes THEN << "pop_stash" >> ELSE << >>)

CleanupKinds ==
    {"Failed to return to original branch", "Failed to restore stashed changes"}

EndsWithCleanup ==
    LET n == Len(CleanupOps)
        m == Len(calls)
    IN  /\ m >= n
        /\ \A i \in 1..n : calls[m - n + i].op = CleanupOps[i]

C7_CleanupState ==
    /\ (git_ops /\ (pc = "notify" \/ (pc = "except" /\ exc = "UnexpectedError"))
          => EndsWithCleanup)
    /\ (pc \in {"notify", "returned"}
          => /\ (CalledWith("checkout_original", "error")
                   <=> HasMessage("Failed to return to original branch"))
             /\ (CalledWith("pop_stash", "error")
                   <=> HasMessage("Failed to restore stashed changes"))
             /\ \A i \in DOMAIN result.error_message :
                   result.error_message[i].kind \in CleanupKinds
                      => (result.error_message[i].warning <=> i > 1))

C7_CleanupStep ==
    pc \in {"fin_checkout", "fin_pop"} /\ exc = "None"
       => pc' \in {"fin_pop", "notify"} /\ exc' = "None"

C8_EmergencyCleanupRestoresStash ==
    pc = "raised" /\ stashed_changes => Called("pop_stash")

\* C9: no failure of a git setup step makes heal raise.
SetupOps ==
    {"has_uncommitted_changes", "stash_changes", "get_current_branch",
     "checkout_feature"}

C9_GitSetupNeverFatal ==
    \A i \in DOMAIN calls : calls[i].op \in SetupOps => calls[i].outcome # "raise"

\* C10: with the agent unavailable the result is a failure with no attempts,
\* the initial run as final_execution and a descriptive message; no request
\* was made, the script was not run again, the loop was never advanced.
C10_AgentUnavailable ==
    CalledWith("is_available", "False")
       => /\ ~result.success
          /\ result.attempts = << >>
          /\ result.final_execution = initial_result
          /\ result.final_execution.ts = 1
          /\ result.error_message # << >>
          /\ result.error_message[1].kind = "Claude Code CLI is not available"
          /\ sent = << >>
          /\ ~Called("request_fix")
          /\ runs = 1
          /\ loop._current_attempt = 0
          /\ yields = << >>
          /\ gen = "none"
          /\ pc \in {"fin_push", "fin_pr", "fin_checkout", "fin_pop",
                     "notify", "returned"}

\* heal returned after it found the agent unavailable
C10_Witness ==
    /\ pc = "returned"
    /\ CalledWith("is_available", "False")
    /\ ~result.success

\* C11: when the initial run succeeds the result is a success with no
\* attempts and the initial run as final_execution; the agent is neither
\* probed nor asked, the script is not run again, nothing is pushed and no PR
\* is created; the checkout of the original branch (if recorded) and the
\* stash pop (if stashed) are still made before heal goes on to return.
C11_InitialSuccessShortCircuits ==
    initial_result.ts = 1 /\ initial_result.exit_code = 0
       => /\ result.success
          /\ result.attempts = << >>
          /\ result.final_execution = initial_result
          /\ result.pr_url = "None"
          /\ sent = << >>
          /\ ~Called("is_available")
          /\ ~Called("request_fix")
          /\ runs = 1
          /\ ~Called("push")
          /\ ~Called("create_pr")
          /\ yields = << >>
          /\ pc \in {"fin_push", "fin_pr", "fin_checkout", "fin_pop",
                     "notify", "returned"}
          /\ (git_ops /\ pc = "notify" => EndsWithCleanup)
          /\ (pc \in {"notify", "returned"}
                => /\ (original_branch # "None" => Called("checkout_original"))
                   /\ (stashed_changes => Called("pop_stash")))

\* heal returned right after a successful initial run, having returned to the
\* original branch and popped the stash
C11_Witness ==
    /\ pc = "returned"
    /\ initial_result.ts = 1
    /\ initial_result.exit_code = 0
    /\ result.success
    /\ CalledWith("checkout_original", "ok")
    /\ CalledWith("pop_stash", "ok")

\* C12: while heal is in its loop the previous_attempts of the context never
\* get shorter; the context built after a failed attempt carries the earlier
\* entries unchanged and in order, followed by exactly one entry for the
\* attempt that just failed; after a different_error (as after a same_error or
\* a timeout) the rest of the context comes from the new failing run.
C12_HistoryStep ==
    /\ (pc # "finalize"
          => Len(context'.previous_attempts) >= Len(context.previous_attempts))
    /\ (pc = "update_context" /\ pc' = "for"
          => /\ Len(context'.previous_attempts) = Len(context.previous_attempts) + 1
             /\ \A i \in DOMAIN context.previous_attempts :
                   context'.previous_attempts[i] = context.previous_attempts[i]
             /\ Last(context'.previous_attempts).attempt_number
                   = Last(attempts).attempt_number
             /\ Last(attempts).attempt_number = Len(attempts)
             /\ context'.result_ts = verification.execution_result.ts
             /\ context'.result_ts = runs)

C12_HistoryOnlyGrows == [][C12_HistoryStep]_vars

\* the context for a third request carries both failed attempts, the first of
\* which ended in a different error
C12_Witness ==
    /\ pc = "for"
    /\ Len(context.previous_attempts) = 2
    /\ context.previous_attempts[1].attempt_number = 1
    /\ context.previous_attempts[2].attempt_number = 2
    /\ attempts[1].status = "different_error"

\* C13: a PR is requested at most once and only for a successful result with
\* changes; every push precedes the request and the checkout of the original
\* branch and the stash pop follow it; pr_url is set only from a PR request
\* that returned a URL.
C13_PROnlyForSuccess ==
    /\ \A i \in DOMAIN calls :
          calls[i].op = "create_pr"
             => /\ result.success
                /\ has_changes
                /\ result.attempts # << >>
                /\ Last(result.attempts).status = "success"
                /\ \A j \in DOMAIN calls :
                      /\ (calls[j].op = "create_pr" => j = i)
                      /\ (calls[j].op = "push" => j < i)
                      /\ (calls[j].op \in {"checkout_original", "pop_stash"} => j > i)
    /\ (result.pr_url # "None" => CalledWith("create_pr", "url"))
    /\ (CalledWith("create_pr", "no_url") \/ CalledWith("create_pr", "raise")
          => result.pr_url = "None")
    /\ (~result.success => result.pr_url = "None")

\* heal returned a success whose PR was created between the push and the
\* cleanup
C13_Witness ==
    /\ pc = "returned"
    /\ CalledWith("push", "ok")
    /\ CalledWith("create_pr", "url")
    /\ result.pr_url = "url"
    /\ CalledWith("checkout_original", "ok")
    /\ CalledWith("pop_stash", "ok")

\* C14: every heal session ends: heal returns or raises, and it raises only
\* if a collaborator call raised, so it returns whenever every call returns;
\* the loop is left only because success was flagged (the break), or
\* max_attempts attempts were made, or total_timeout had elapsed at the check.
CallRaised == \E i \in DOMAIN calls : calls[i].outcome = "raise"

C14_LoopEndReason ==
    pc = "finalize"
       => \/ /\ gen = "abandoned"
             /\ loop._success
             /\ Last(attempts).status = "success"
          \/ /\ gen = "finished"
             /\ ~last_check.ok
             /\ \/ last_check.current_attempt >= loop.max_attempts
                \/ last_check.elapsed >= loop.total_timeout

C14_SessionTerminates ==
    /\ <>(pc \in {"returned", "raised"})
    /\ [](pc = "raised" => CallRaised /\ exc # "None")
    /\ []C14_LoopEndReason

\* heal returned after the loop ran out of time before max_attempts was used
C14_Witness ==
    /\ pc = "returned"
    /\ ~CallRaised
    /\ gen = "finished"
    /\ last_check.elapsed >= loop.total_timeout
    /\ last_check.current_attempt < loop.max_attempts

\* C15: a failed result always carries an error_message; after N >= 1
\* attempts its first message is the failure after N attempts, and without
\* attempts (agent unavailable) it is the setup problem.
C15_FailureMessageTellsAttempts ==
    pc \in {"fin_push", "fin_pr", "fin_checkout", "fin_pop", "notify", "returned"}
      /\ ~result.success
       => /\ result.error_message # << >>
          /\ (result.attempts # << >>
                => result.error_message[1]
                     = Msg("Failed to heal after N attempts", Len(result.attempts), FALSE))
          /\ (result.attempts = << >>
                => result.error_message[1].kind = "Claude Code CLI is not available")


(***************************************************************************)
(* Properties of HealingLoop.__init__, checked under CtorSpec              *)
(***************************************************************************)
\* C16: the constructor raises ValueError exactly when max_attempts < 1 or
\* timeout_per_attempt < 1 or total_timeout < timeout_per_attempt, leaving
\* no attribute assigned; otherwise the instance holds the three arguments,
\* the attempt counter 0, the start time 0 and a lowered success flag.
C16_CtorValidation ==
    pc = "done"
       => LET a == call_args
          IN  /\ (returned.raised # "None"
                    <=> \/ a.max_attempts < 1
                        \/ a.timeout_per_attempt < 1
                        \/ a.total_timeout < a.timeout_per_attempt)
              /\ (returned.raised # "None" => loop = NoLoop)
              /\ (returned.raised = "None"
                    => /\ loop.max_attempts = a.max_attempts
                       /\ loop.timeout_per_attempt = a.timeout_per_attempt
                       /\ loop.total_timeout = a.total_timeout
                       /\ loop._current_attempt = 0
                       /\ loop._start_time = 0
                       /\ ~loop._success)

\* the boundary: total_timeout equal to timeout_per_attempt is accepted
C16_Witness ==
    /\ pc = "done"
    /\ call_args.max_attempts = 1
    /\ call_args.timeout_per_attempt = 2
    /\ call_args.total_timeout = 2
    /\ returned.raised = "None"
    /\ loop._current_attempt = 0


(***************************************************************************)
(* Properties of ScriptRunner.run_script, checked under RunnerSpec         *)
(***************************************************************************)
\* C18: for a script that exists and has an interpreter, run_script raises
\* nothing when the run times out or cannot be launched: after a timeout it
\* returns exit code -1 with the output captured so far, after a launch
\* failure exit code -2 with empty stdout; -1, -2 and 0 differ.
C18_RunnerAlwaysReturnsResult ==
    pc = "done" /\ call_args.path = "file" /\ call_args.interpreter = "known"
       => LET o == call_args.outcome
              r == returned.value
          IN  /\ (o.kind = "TimeoutExpired"
                    => /\ returned.raised = "None"
                       /\ r.exit_code = -1
                       /\ Len(r.stdout) = Len(o.stdout)
                       /\ Len(r.stderr) = Len(o.stderr) + 1
                       /\ Last(r.stderr) = "[TIMEOUT]")
              /\ (o.kind \in {"OSError", "SubprocessError"}
                    => /\ returned.raised = "None"
                       /\ r.exit_code = -2
                       /\ r.stdout = << >>
                       /\ r.stderr[1] = "[EXECUTION ERROR]")
              /\ (o.kind = "completed" /\ o.returncode = 0
                    => returned.raised = "None" /\ r.exit_code \notin {-1, -2})


(***************************************************************************)
(* Properties of check_custom_criteria, checked under CriteriaSpec         *)
(***************************************************************************)
CriteriaKeys ==
    {"exit_code", "contains", "not_contains", "regex_match", "stderr_contains",
     "stderr_not_contains", "duration_less_than", "priority"}
RecognizedKeys == CriteriaKeys \ {"priority"}

EmptyCriteria == \A k \in CriteriaKeys : ~call_args.criteria[k].present

\* C19 as stated: with the empty criteria map the function returns what
\* exit_code == 0 gives.
C19_EmptyCriteriaIsExitCodeZero ==
    pc = "done" /\ EmptyCriteria
       => (returned.value <=> call_args.result.exit_code = 0)

\* C19 amended: with the empty criteria map the function returns True for
\* every result, whatever its exit code.
C19_EmptyCriteriaAlwaysPass ==
    pc = "done" /\ EmptyCriteria => returned.raised = "None" /\ returned.value

\* the empty map passed a result with exit code 1
C19_Witness ==
    /\ pc = "done"
    /\ EmptyCriteria
    /\ call_args.result.exit_code = 1
    /\ returned.value

\* the criteria map with every key but k removed
Only(c, k) == [ j \in CriteriaKeys |-> IF j = k THEN c[j] ELSE Absent ]
Without(c, k) == [ j \in CriteriaKeys |-> IF j = k THEN Absent ELSE c[j] ]

\* C20: the function returns True exactly when each recognized key that is
\* present passes on its own; a key it does not know changes nothing; a
\* regex_match that does not compile fails and raises nothing; exit_code
\* asks for the exact code and duration_less_than for a duration strictly
\* below the bound.
C20_CriteriaAreConjoined ==
    pc = "done"
       => LET r == call_args.result
              c == call_args.criteria
          IN  /\ returned.raised = "None"
              /\ (returned.value
                    <=> \A k \in RecognizedKeys :
                           c[k].present => check_custom_criteria(r, Only(c, k)))
              /\ (returned.value <=> check_custom_criteria(r, Without(c, "priority")))
              /\ (c.regex_match.present /\ c.regex_match.value = PyStr(<< "(" >>)
                    => ~returned.value)
              /\ (c.exit_code.present /\ c.exit_code.value.n # r.exit_code
                    => ~returned.value)
              /\ (c.duration_less_than.present
                    => (check_custom_criteria(r, Only(c, "duration_less_than"))
                          <=> r.duration < c.duration_less_than.value.n))

\* every present key but one passes: the duration equals the bound, and the
\* result is False
C20_Witness ==
    /\ pc = "done"
    /\ \A k \in {"exit_code", "contains", "regex_match", "stderr_not_contains",
                  "duration_less_than", "priority"} : call_args.criteria[k].present
    /\ \A k \in RecognizedKeys \ {"duration_less_than"} :
          check_custom_criteria(call_args.result, Only(call_args.criteria, k))
    /\ call_args.result.duration = call_args.criteria.duration_less_than.value.n
    /\ ~returned.value

OnlyPresent(k) ==
    \A j \in CriteriaKeys : call_args.criteria[j].present <=> j = k

\* C21 as stated: not_contains alone passes exactly when the pattern does not
\* occur in stdout, whatever stderr holds.
C21_NotContainsReadsStdoutOnly ==
    pc = "done" /\ OnlyPresent("not_contains")
       => (returned.value
             <=> ~Contains(str(call_args.criteria.not_contains.value),
                           call_args.result.stdout))

\* C21 amended: not_contains alone passes exactly when the pattern occurs
\* neither in stdout nor in stderr.
C21_NotContainsReadsBothStreams ==
    pc = "done" /\ OnlyPresent("not_contains")
       => LET p == str(call_args.criteria.not_contains.value)
          IN  returned.value
                <=> /\ ~Contains(p, call_args.result.stdout)
                    /\ ~Contains(p, call_args.result.stderr)

\* the pattern is absent from stdout and present in stderr: the result is False
C21_Witness ==
    /\ pc = "done"
    /\ OnlyPresent("not_contains")
    /\ ~Contains(str(call_args.criteria.not_contains.value), call_args.result.stdout)
    /\ Contains(str(call_args.criteria.not_contains.value), call_args.result.stderr)
    /\ ~returned.value


(***************************************************************************)
(* Properties of Redactor.redact, checked under RedactSpec                 *)
(***************************************************************************)
\* C22: the second pass of redact with the same patterns returns its input:
\* redact(redact(t)) = redact(t).
C22_RedactionIsFixedPoint ==
    pc = "twice" => returned.value = returned.previous


(***************************************************************************)
(* Properties of core/truncation.py, checked under TruncTextSpec           *)
(***************************************************************************)
\* C27: the token cost of a text is the ceiling of its character count
\* divided by 4.
C27_CostIsCeiling ==
    pc = "estimated"
       => /\ 4 * returned.value >= TextLen(call_args.text)
          /\ 4 * returned.value < TextLen(call_args.text) + 4

\* C27 (amended): the token cost of a text is its character count divided
\* by 4, rounded down.
C27_CostIsFloor ==
    pc = "estimated"
       => /\ 4 * returned.value <= TextLen(call_args.text)
          /\ TextLen(call_args.text) < 4 * returned.value + 4

\* a text of 5 characters costs 1 token
C27_Witness ==
    /\ pc = "estimated"
    /\ TextLen(call_args.text) = 5
    /\ returned.value = 1

\* C25: 'middle' mode keeps the first and the last line of every text that
\* is over its budget and has two or more lines.
C25_MiddleKeepsFirstAndLastLine ==
    /\ pc = "done"
    /\ call_args.position = "middle"
    /\ TextLen(call_args.text) \div 4 > call_args.max_tokens
    /\ Len(call_args.text) >= 2
    => /\ returned.value[1] = call_args.text[1]
       /\ Last(returned.value) = Last(call_args.text)

\* the same for a single text: truncate_text returns a text that is not longer than
\* its input, in every mode.
C24_TextNeverGrows ==
    pc = "done" => TextLen(returned.value) <= TextLen(call_args.text)


OverBudget == TextLen(call_args.text) \div 4 > call_args.max_tokens

\* the output is the lines 1..s of the text, one marker line that says
\* e - s lines were removed, and the lines e+1.. of the text; no kept lines
\* are the empty text
KeepsAllBut(s, e) ==
    LET n == Len(call_args.text)
        head == IF call_args.position = "start" THEN << >>
                ELSE join(SubSeq(call_args.text, 1, s))
        tail == IF call_args.position = "end" THEN << >>
                ELSE join(SubSeq(call_args.text, e + 1, n))
        out == returned.value
    IN  /\ Len(out) = Len(head) + 1 + Len(tail)
        /\ SubSeq(out, 1, Len(head)) = head
        /\ out[Len(head) + 1].pos = call_args.position
        /\ out[Len(head) + 1].removed = e - s
        /\ SubSeq(out, Len(head) + 2, Len(out)) = tail

RECURSIVE CommitsSize(_, _)
CommitsSize(commits, k) ==
    IF k > Len(commits) THEN 0
    ELSE TextLen(commits[k].message)
            + (IF commits[k].diff = NoDiff THEN 0 ELSE TextLen(commits[k].diff))
            + CommitsSize(commits, k + 1)

ContextSize(ctx) ==
    TextLen(ctx.script_content)
        + TextLen(ctx.execution_result.stdout)
        + TextLen(ctx.execution_result.stderr)
        + (IF ctx.git_context.present
           THEN TextLen(ctx.git_context.uncommitted_changes)
                   + CommitsSize(ctx.git_context.recent_commits, 1)
           ELSE 0)

\* the estimated tokens of the same parts, each estimated on its own
ContextCost(ctx) ==
    (TextLen(ctx.script_content) \div 4)
        + (TextLen(ctx.execution_result.stdout) \div 4)
        + (TextLen(ctx.execution_result.stderr) \div 4)
        + (IF ctx.git_context.present THEN GitTokens(ctx.git_context) ELSE 0)

\* C23: truncating a truncated context again with the same max_tokens
\* returns it unchanged.
C23_TruncationIsIdempotent ==
    pc = "twice" => returned.value = returned.previous

\* C24: the truncated context has at most as many characters as the
\* context it was made from (truncate_text alone: C24_TextNeverGrows).
C24_ContextNeverGrows ==
    pc = "once" => ContextSize(returned.value) <= ContextSize(call_args.context)

\* C26: for max_tokens >= 1 the estimated token cost of the returned
\* context is at most max_tokens.
C26_ResultFitsBudget ==
    pc = "once" /\ call_args.max_tokens >= 1
       => ContextCost(returned.value) <= call_args.max_tokens


(***************************************************************************)
(* Properties of compare_errors, checked under CompareSpec                 *)
(***************************************************************************)
SameExitCode == call_args.previous.exit_code = call_args.current.exit_code
SameStderr == call_args.previous.stderr = call_args.current.stderr
SameStdout == call_args.previous.stdout = call_args.current.stdout

\* C28: two results with the same exit code and the same stderr are the same
\* error with a similarity score above 0.9, whatever their stdout.
C28_IdenticalErrorsScoreAboveNineTenths ==
    pc = "done" /\ SameExitCode /\ SameStderr
       => /\ Truthy(returned.value.is_same_error)
          /\ Exceeds(returned.value.similarity_score, 9)

\* C28 (amended): two results with the same exit code and the same stderr
\* are the same error with a similarity score of at least 0.7; the score is
\* above 0.9 when their stdout is the same too.
C28_IdenticalErrorsScoreAtLeastSevenTenths ==
    pc = "done" /\ SameExitCode /\ SameStderr
       => /\ Truthy(returned.value.is_same_error)
          /\ 10 * returned.value.similarity_score.num
                >= 7 * returned.value.similarity_score.den
          /\ SameStdout => Exceeds(returned.value.similarity_score, 9)

\* same exit code, same stderr, stdout with nothing in common: the score is 0.7
C28_Witness ==
    /\ pc = "done"
    /\ SameExitCode
    /\ SameStderr
    /\ call_args.previous.stderr # << >>
    /\ ~SameStdout
    /\ Truthy(returned.value.is_same_error)
    /\ 10 * returned.value.similarity_score.num
          = 7 * returned.value.similarity_score.den

StderrSimilarity ==
    ratio(_normalize_error_output(call_args.previous.stderr),
          _normalize_error_output(call_args.current.stderr))
StdoutSimilarity ==
    ratio(_normalize_error_output(call_args.previous.stdout),
          _normalize_error_output(call_args.current.stdout))
FirstCondition == SameExitCode /\ Exceeds(StderrSimilarity, 8)
SecondCondition ==
    /\ _extract_error_patterns(call_args.previous.stderr)
          = _extract_error_patterns(call_args.current.stderr)
    /\ _extract_error_patterns(call_args.previous.stderr) # {}
    /\ 10 * (7 * StderrSimilarity.num * StdoutSimilarity.den
                + 3 * StdoutSimilarity.num * StderrSimilarity.den)
          > 6 * 10 * StderrSimilarity.den * StdoutSimilarity.den

\* C29: is_same_error is true exactly when the exit codes are equal and the
\* similarity of the normalized stderr is above 0.8, or the sets of error
\* patterns are equal and not empty and 0.7 * stderr similarity + 0.3 *
\* stdout similarity is above 0.6; when both stderr are empty there are no
\* error patterns and the first condition alone decides.
C29_SameErrorRule ==
    pc = "done"
       => /\ Truthy(returned.value.is_same_error) <=> FirstCondition \/ SecondCondition
          /\ call_args.previous.stderr = << >> /\ call_args.current.stderr = << >>
                => /\ _extract_error_patterns(call_args.previous.stderr) = {}
                   /\ _extract_error_patterns(call_args.current.stderr) = {}
                   /\ ~SecondCondition
                   /\ Truthy(returned.value.is_same_error) <=> FirstCondition

\* the same error by the second condition alone: the exit codes differ
C29_Witness ==
    /\ pc = "done"
    /\ ~SameExitCode
    /\ ~SameStderr
    /\ SecondCondition
    /\ Truthy(returned.value.is_same_error)

\* the two stderr differ, and only in words that are timestamps, paths,
\* process ids, addresses or ports on both sides
DifferOnlyInVariables ==
    LET a == call_args.previous.stderr
        b == call_args.current.stderr
    IN  /\ a # b
        /\ Len(a) = Len(b)
        /\ \A k \in 1..Len(a) :
              \/ a[k] = b[k]
              \/ \E kind \in {Timestamps, Paths, Pids, Addresses, Ports} :
                     a[k] \in kind /\ b[k] \in kind

\* C30: two results whose stderr differ only in timestamps, paths, process
\* ids, addresses and ports are the same error.
C30_VariablesDoNotMatter ==
    pc = "done" /\ DifferOnlyInVariables
       => Truthy(returned.value.is_same_error)

\* C30 (amended): two results with the same exit code whose stderr differ
\* only in timestamps, paths, process ids, addresses and ports are the same
\* error.
C30_VariablesDoNotMatterForSameExitCode ==
    pc = "done" /\ SameExitCode /\ DifferOnlyInVariables
       => Truthy(returned.value.is_same_error)

C30_Witness ==
    /\ pc = "done"
    /\ SameExitCode
    /\ DifferOnlyInVariables
    /\ call_args.previous.stderr[2] \in Paths
    /\ ~SameStdout
    /\ Truthy(returned.value.is_same_error)

====
